---- MODULE Spec2Model ----
(***************************************************************************)
(* A model of the ImageRepository reconciler of the image-reflector        *)
(* controller (controllers/imagerepository_controller.go, the variant      *)
(* with exclusion lists and finalizers, lines 1-623).                      *)
(*                                                                         *)
(* One ImageRepository object lives in the API server (repo); the tag      *)
(* database (db) maps canonical image names to tag lists; clock is the     *)
(* wall clock in ticks of half a second.  A reconciliation pass is one     *)
(* atomic action: passes of one object are serialised by the work queue.   *)
(* Everything the pass cannot decide itself (API failures, the registry's  *)
(* answer, the time the scan takes) is an input e of the pass.             *)
(*                                                                         *)
(* Strings the code inspects (image references, tags) are sequences of     *)
(* tokens or characters; messages and errors are sequences of strings;     *)
(* a nil pointer or absent value is the empty sequence.                    *)
(***************************************************************************)
EXTENDS Integers, Sequences, FiniteSets, TLC

(* ------------------------------ bounds --------------------------------- *)

\* The clock stops at MaxTime ticks.
MaxTime == 6

\* The user changes the object at most MaxEdits times.
MaxEdits == 2

\* A scan that reaches the registry takes 0..MaxElapsed ticks.
MaxElapsed == 1

\* A service account has at most MaxPull image pull secrets.
MaxPull == 2

\* Each of two objects with one canonical name is reconciled at most
\* MaxPasses times.
MaxPasses == 2

(* ----------------------------- constants ------------------------------- *)

\* time.Second, in ticks.
Second == 2

NoErr == <<>>

\* The error of a call to the API server, the provider or the registry that
\* fails or runs into the timeout of the pass.
APIError == <<"context deadline exceeded">>

ImageRepositoryFinalizer == "finalizers.fluxcd.io"

CosignObjectRegex == "^.*\\.sig$"

ReadyCondition == "Ready"
SuspendedReason == "Suspended"
ImageURLInvalidReason == "ImageURLInvalid"
ReconciliationFailedReason == "ReconciliationFailed"
ReconciliationSucceededReason == "ReconciliationSucceeded"

EventSeverityError == "error"
EventSeverityInfo == "info"

(* --------------------------- small helpers ----------------------------- *)

HasPrefix(s, p) == Len(s) >= Len(p) /\ SubSeq(s, 1, Len(p)) = p

HasSuffix(s, p) == Len(s) >= Len(p) /\ SubSeq(s, Len(s) - Len(p) + 1, Len(s)) = p

TrimPrefix(s, p) == IF HasPrefix(s, p) THEN SubSeq(s, Len(p) + 1, Len(s)) ELSE s

\* The positions of token sep in s.
Positions(s, sep) == {i \in 1..Len(s) : s[i] = sep}

Min(S) == CHOOSE x \in S : \A y \in S : x <= y

\* strings.Split(s, sep)[0] and [1], for a separator that occurs in s.
SplitFirst(s, sep) == SubSeq(s, 1, Min(Positions(s, sep)) - 1)

UpTo(s, sep) == IF Positions(s, sep) = {} THEN s ELSE SplitFirst(s, sep)

SplitSecond(s, sep) == UpTo(SubSeq(s, Min(Positions(s, sep)) + 1, Len(s)), sep)

\* fmt's %v of a small integer.
Itoa(n) == IF n \in 0..9 THEN <<"0", "1", "2", "3", "4", "5", "6", "7", "8", "9">>[n + 1] ELSE "many"

(* ------------------------- the values in play -------------------------- *)

\* spec.image values: tokens of the string, separators as tokens of their own.
ImgAlpine == <<"docker.io", "/", "library", "/", "alpine">>
ImgLocal == <<"localhost", ":", "5000", "/", "app">>
ImgScheme == <<"https", "://", "docker.io", "/", "library", "/", "alpine">>
ImgTagged == <<"docker.io", "/", "library", "/", "alpine", ":", "latest">>
Images == {ImgAlpine, ImgLocal, ImgScheme, ImgTagged}

\* Further values parseImageReference is applied to.
ImgBare == <<"alpine">>
ImgBareTagged == <<"alpine", ":", "latest">>
ImgLocalTagged == <<"localhost", ":", "5000", "/", "app", ":", "v1">>
ImgLocalScheme == <<"http", "://", "localhost", ":", "5000", "/", "app">>
ImgUpper == <<"docker.io", "/", "library", "/", "Alpine">>
ImageInputs == Images \cup {ImgBare, ImgBareTagged, ImgLocalTagged, ImgLocalScheme, ImgUpper}

\* Tags, as character sequences.
TagA == <<"a">>
TagASig == <<"a", ".", "s", "i", "g">>
TagB == <<"b">>

V100 == <<"v", "1", ".", "0", ".", "0">>
V100Sig == <<"v", "1", ".", "0", ".", "0", ".", "s", "i", "g">>
Latest == <<"l", "a", "t", "e", "s", "t">>

\* What the registry may answer to a tag listing.
Listings == {<<TagASig>>, <<TagA, TagASig, TagB>>, <<V100, V100Sig, Latest>>}

\* The values of the reconcile.fluxcd.io/requestedAt annotation, in the
\* order in which they are requested.
Tokens == <<"t1", "t2">>

NoAnnotation == [ok |-> FALSE, val |-> ""]

\* Keys of the auths of a pull secret: tokens of the registry URL.
KeyHubV2 == <<"https", "://", "index.docker.io", "/", "v2", "/">>
KeyHub == <<"index.docker.io">>
KeyHubHTTP == <<"http", "://", "index.docker.io">>
KeyLocal == <<"localhost", ":", "5000">>
KeyLocalV2 == <<"https", "://", "localhost", ":", "5000", "/", "v2", "/">>
KeyGhcr == <<"ghcr.io">>
KeyEmptyHTTP == <<"http", "://">>
KeyEmptyHTTPS == <<"https", "://">>
KeyNoHost == <<"https", "://", "/", "v2", "/">>
KeyBadPort == <<"localhost", ":", "port">>
AuthKeys == {KeyHubV2, KeyHub, KeyHubHTTP, KeyLocal, KeyLocalV2, KeyGhcr,
             KeyEmptyHTTP, KeyEmptyHTTPS, KeyNoHost, KeyBadPort}

\* The content of a secret: its type, whether its .dockerconfigjson decodes,
\* and the auths of the decoded document, a list of (url, entry).
DockerConfigJson == "kubernetes.io/dockerconfigjson"

SecretContent(type, decodes, auths) == [type |-> type, decodes |-> decodes, auths |-> auths]

SecretHub == SecretContent(DockerConfigJson, TRUE, <<[url |-> KeyHubV2, entry |-> "hub"]>>)
SecretOpaque == SecretContent("Opaque", TRUE, <<>>)
SecretGarbled == SecretContent(DockerConfigJson, FALSE, <<>>)
SecretGhcr == SecretContent(DockerConfigJson, TRUE, <<[url |-> KeyGhcr, entry |-> "ghcr"]>>)
SecretBadKey == SecretContent(DockerConfigJson, TRUE,
                    <<[url |-> KeyHub, entry |-> "hub"], [url |-> KeyEmptyHTTP, entry |-> "none"]>>)
SecretTwoKeys == SecretContent(DockerConfigJson, TRUE,
                     <<[url |-> KeyHub, entry |-> "plain"], [url |-> KeyHubV2, entry |-> "v2"]>>)
SecretContents == {SecretHub, SecretOpaque, SecretGarbled, SecretGhcr, SecretBadKey,
                   SecretTwoKeys}

\* What the login of the providers returns without an error: an
\* authenticator, or nil when no provider applies.
NoAuth == <<>>
ProviderAuths == {NoAuth, <<"provider token">>}

(* ---------------------- image reference parsing ------------------------ *)

\* go-containerregistry's name.ParseReference, on tokens: a trailing ":tag"
\* (a ":" with no "/" after it) is the tag; the part before the first "/" is
\* the registry iff it holds a '.' or a ':', else the registry defaults to
\* Docker Hub; "docker.io" is an alias of "index.docker.io"; a repository
\* with an upper-case name is refused.
DottedNames == {"docker.io", "index.docker.io", "ghcr.io"}
BadRepoNames == {"Alpine"}
DefaultRegistry == <<"index.docker.io">>

\* The greatest element of a set of positions, 0 if there is none.
LastOf(S) == IF S = {} THEN 0 ELSE CHOOSE i \in S : \A j \in S : j <= i

\* The position c of a ":" if a tag starts there, else 0.
TagAt(url, c) ==
    IF c > 0 /\ Positions(SubSeq(url, c + 1, Len(url)), "/") = {} THEN c ELSE 0

\* name.NewRepository: the reference of a registry and a repository path.
NewRepository(reg, path) ==
    IF path = <<>> \/ \E i \in 1..Len(path) : path[i] \in BadRepoNames
    THEN [err |-> <<"could not parse reference">>, registry |-> <<>>, canonical |-> <<>>]
    ELSE IF reg = DefaultRegistry /\ Positions(path, "/") = {}
    THEN [err |-> NoErr, registry |-> reg, canonical |-> reg \o <<"/", "library", "/">> \o path]
    ELSE [err |-> NoErr, registry |-> reg, canonical |-> reg \o <<"/">> \o path]

\* The reference of a name without tag, first being its part ahead of the
\* first "/" (<<>> if it has no "/").
ParseName(base, first) ==
    IF \E i \in 1..Len(first) : first[i] \in DottedNames \cup {":"}
    THEN NewRepository(IF first = <<"docker.io">> THEN DefaultRegistry ELSE first,
                       SubSeq(base, Len(first) + 2, Len(base)))
    ELSE NewRepository(DefaultRegistry, base)

ParseBase(base) ==
    ParseName(base, IF Positions(base, "/") = {} THEN <<>> ELSE SplitFirst(base, "/"))

ParseTagged(url, c) == ParseBase(IF c > 0 THEN SubSeq(url, 1, c - 1) ELSE url)

ParseReference(url) == ParseTagged(url, TagAt(url, LastOf(Positions(url, ":"))))

\* parseImageReference, lines 223-228: the check for a tag.
checkImageName(imageName, ref) ==
    IF Positions(imageName, ":") # {}
    THEN [err |-> <<".spec.image value should not contain a tag; remove", ":">>
                  \o SplitSecond(imageName, ":"),
          registry |-> <<>>, canonical |-> <<>>]
    ELSE ref

\* Variant of checkReference: the tag is looked for in the whole of url, the
\* registry included.
checkReferenceUntrimmed(url, ref) ==
    IF ref.err # NoErr THEN ref
    ELSE checkImageName(url, ref)

\* parseImageReference, lines 218-228: after name.ParseReference.
checkReference(url, ref) ==
    IF ref.err # NoErr THEN ref
    ELSE checkImageName(TrimPrefix(url, ref.registry), ref)

parseImageReference(url) ==
    IF Positions(url, "://") # {}
    THEN [err |-> <<".spec.image value should not start with URL scheme; remove">>
                  \o SplitFirst(url, "://") \o <<"://">>,
          registry |-> <<>>, canonical |-> <<>>]
    ELSE checkReference(url, ParseReference(url))

(* --------------------------- the tag database -------------------------- *)

\* Database.Tags: the tags stored under a canonical name; none stored reads
\* as an empty list.  fail: the read fails.
Tags(database, repo, fail) ==
    IF fail THEN [tags |-> <<>>, err |-> <<"database read failed">>]
    ELSE [tags |-> IF repo \in DOMAIN database THEN database[repo] ELSE <<>>, err |-> NoErr]

\* Variant of SetTags: the tags are added to the list stored under the name.
SetTagsAppends(database, repo, tags) ==
    [k \in DOMAIN database \cup {repo} |->
        IF k # repo THEN database[k]
        ELSE IF repo \in DOMAIN database THEN database[repo] \o tags
        ELSE tags]

\* Database.SetTags: replaces the list stored under a canonical name.
SetTags(database, repo, tags) ==
    [k \in DOMAIN database \cup {repo} |-> IF k = repo THEN tags ELSE database[k]]

(* ------------------------------ conditions ----------------------------- *)

\* apimeta.FindStatusCondition: the conditions of the given type (at most one).
FindStatusCondition(conditions, type) == SelectSeq(conditions, LAMBDA c : c.type = type)

\* imagev1.SetImageRepositoryReadiness: sets the condition of type Ready.
SetImageRepositoryReadiness(imageRepo, status, reason, message) ==
    LET c == [type |-> ReadyCondition, status |-> status, reason |-> reason, message |-> message]
        old == imageRepo.status.conditions
    IN  [imageRepo EXCEPT !.status.conditions =
            IF FindStatusCondition(old, ReadyCondition) = <<>>
            THEN Append(old, c)
            ELSE [i \in 1..Len(old) |-> IF old[i].type = ReadyCondition THEN c ELSE old[i]]]

\* meta.ReconcileAnnotationValue: the reconcile request annotation, and whether it is set.
ReconcileAnnotationValue(annotations) == annotations

(* ------------------------------ shouldScan ----------------------------- *)

Decision(ok, when, err, dbReads) == [ok |-> ok, when |-> when, err |-> err, dbReads |-> dbReads]

\* Variant of shouldScanInterval: a scan is due as soon as one second or less
\* of the interval is left.
shouldScanIntervalInclusive(scanInterval, now, lastScanTime) ==
    LET when == scanInterval - (now - lastScanTime)
    IN  IF when <= Second THEN Decision(TRUE, scanInterval, NoErr, 1)
        ELSE Decision(FALSE, when, NoErr, 1)

\* shouldScan, lines 477-481: the time left of the interval.
shouldScanInterval(scanInterval, now, lastScanTime) ==
    LET when == scanInterval - (now - lastScanTime)
    IN  IF when < Second THEN Decision(TRUE, scanInterval, NoErr, 1)
        ELSE Decision(FALSE, when, NoErr, 1)

\* Variant of shouldScanTags: an empty list of tags is no reason to scan.
shouldScanTagsAnyLength(repo, now, database, tagsFail) ==
    LET scanInterval == repo.spec.interval
        res == Tags(database, repo.status.canonicalImageName, tagsFail)
    IN  IF res.err # NoErr THEN Decision(FALSE, scanInterval, res.err, 1)
        ELSE LET when == scanInterval - (now - repo.status.lastScanResult[1].scanTime)
             IN  IF when < Second THEN Decision(TRUE, scanInterval, NoErr, 1)
                 ELSE Decision(FALSE, when, NoErr, 1)

\* shouldScan, lines 462-481: the tags in the database.  tagsFail: the read fails.
shouldScanTags(repo, now, database, tagsFail) ==
    LET scanInterval == repo.spec.interval
        res == Tags(database, repo.status.canonicalImageName, tagsFail)
    IN  IF res.err # NoErr THEN Decision(FALSE, scanInterval, res.err, 1)
        ELSE IF Len(res.tags) = 0 THEN Decision(TRUE, scanInterval, NoErr, 1)
        ELSE shouldScanInterval(scanInterval, now, repo.status.lastScanResult[1].scanTime)

\* Variant of shouldScanRequest: the annotation is honoured only once the
\* interval has passed.
shouldScanRequestThrottled(repo, now, database, tagsFail) ==
    LET syncAt == ReconcileAnnotationValue(repo.annotations)
        when == repo.spec.interval - (now - repo.status.lastScanResult[1].scanTime)
    IN  IF syncAt.ok /\ syncAt.val # repo.status.lastHandledReconcileRequest /\ when < Second
        THEN Decision(TRUE, repo.spec.interval, NoErr, 0)
        ELSE LET scanInterval == repo.spec.interval
                 res == Tags(database, repo.status.canonicalImageName, tagsFail)
             IN  IF res.err # NoErr THEN Decision(FALSE, scanInterval, res.err, 1)
                 ELSE IF Len(res.tags) = 0 THEN Decision(TRUE, scanInterval, NoErr, 1)
                 ELSE IF when < Second THEN Decision(TRUE, scanInterval, NoErr, 1)
                 ELSE Decision(FALSE, when, NoErr, 1)

\* Variant of shouldScanRequest: an annotation makes the scan due whether or
\* not its value has been handled.
shouldScanRequestAnyValue(repo, now, database, tagsFail) ==
    LET syncAt == ReconcileAnnotationValue(repo.annotations)
    IN  IF syncAt.ok
        THEN Decision(TRUE, repo.spec.interval, NoErr, 0)
        ELSE shouldScanTags(repo, now, database, tagsFail)

\* shouldScan, lines 453-481: the reconcile request annotation.
shouldScanRequest(repo, now, database, tagsFail) ==
    LET syncAt == ReconcileAnnotationValue(repo.annotations)
    IN  IF syncAt.ok /\ syncAt.val # repo.status.lastHandledReconcileRequest
        THEN Decision(TRUE, repo.spec.interval, NoErr, 0)
        ELSE shouldScanTags(repo, now, database, tagsFail)

\* Variant of shouldScan: the database is read before anything else.
shouldScanReadsFirst(repo, now, database, tagsFail) ==
    LET res == Tags(database, repo.status.canonicalImageName, tagsFail)
    IN  IF res.err # NoErr THEN Decision(FALSE, repo.spec.interval, res.err, 1)
        ELSE IF repo.status.lastScanResult = <<>>
        THEN Decision(TRUE, repo.spec.interval, NoErr, 1)
        ELSE LET syncAt == ReconcileAnnotationValue(repo.annotations)
                 when == repo.spec.interval - (now - repo.status.lastScanResult[1].scanTime)
             IN  IF syncAt.ok /\ syncAt.val # repo.status.lastHandledReconcileRequest
                 THEN Decision(TRUE, repo.spec.interval, NoErr, 1)
                 ELSE IF Len(res.tags) = 0 \/ when < Second
                 THEN Decision(TRUE, repo.spec.interval, NoErr, 1)
                 ELSE Decision(FALSE, when, NoErr, 1)

\* shouldScan(repo, now): whether to scan now and how long to wait for the
\* next scan; dbReads counts the reads of the database.
shouldScan(repo, now, database, tagsFail) ==
    IF repo.status.lastScanResult = <<>>
    THEN Decision(TRUE, repo.spec.interval, NoErr, 0)
    ELSE shouldScanRequest(repo, now, database, tagsFail)

(* ----------------------------- credentials ---------------------------- *)

\* url.Parse of scheme://rest, as far as the host: the host is what stands
\* ahead of the first "/"; a port that is not a number is refused.
Ports == {"5000", "443"}

URLHost(rest) ==
    LET host == UpTo(rest, "/")
    IN  IF \E i \in 1..Len(host) : host[i] = ":" /\ (i = Len(host) \/ host[i + 1] \notin Ports)
        THEN [host |-> <<>>, err |-> <<"invalid port after host">>]
        ELSE [host |-> host, err |-> NoErr]

HasScheme(urlStr) ==
    HasPrefix(urlStr, <<"http", "://">>) \/ HasPrefix(urlStr, <<"https", "://">>)

\* getURLHost, lines 611-622: urlStr has a scheme.
getURLHostParsed(urlStr, u) ==
    IF u.err # NoErr THEN u
    ELSE IF u.host = <<>>
    THEN [host |-> <<>>, err |-> <<"Invalid registry auth key:">> \o urlStr]
    ELSE u

\* getURLHost(urlStr): the host of a key of the auths, or an error.
getURLHost(urlStr) ==
    IF urlStr = <<"http", "://">> \/ urlStr = <<"https", "://">>
    THEN [host |-> <<>>, err |-> <<"Empty url">>]
    ELSE IF ~HasScheme(urlStr)
    THEN getURLHostParsed(<<"https", "://">> \o urlStr \o <<"/">>, URLHost(urlStr \o <<"/">>))
    ELSE getURLHostParsed(urlStr, URLHost(SubSeq(urlStr, 3, Len(urlStr))))

EmptyAuthMap == [h \in {} |-> ""]

\* Variant of parseAuthMap: a key without a host is left out.
RECURSIVE parseAuthMapSkipsBad(_, _)
parseAuthMapSkipsBad(auths, auth) ==
    IF auths = <<>> THEN [auth |-> auth, err |-> NoErr]
    ELSE LET h == getURLHost(Head(auths).url)
         IN  IF h.err # NoErr THEN parseAuthMapSkipsBad(Tail(auths), auth)
             ELSE parseAuthMapSkipsBad(Tail(auths),
                      [k \in DOMAIN auth \cup {h.host} |->
                          IF k = h.host THEN Head(auths).entry ELSE auth[k]])

\* parseAuthMap(config): the entries of the auths by host; the loop ends
\* with the error of the first key that has no host.
RECURSIVE parseAuthMap(_, _)
parseAuthMap(auths, auth) ==
    IF auths = <<>> THEN [auth |-> auth, err |-> NoErr]
    ELSE LET h == getURLHost(Head(auths).url)
         IN  IF h.err # NoErr THEN [auth |-> EmptyAuthMap, err |-> h.err]
             ELSE parseAuthMap(Tail(auths),
                      [k \in DOMAIN auth \cup {h.host} |->
                          IF k = h.host THEN Head(auths).entry ELSE auth[k]])

\* The orders in which a range over a map of n keys can visit them.
Orders(n) == {o \in [1..n -> 1..n] : \A i, j \in 1..n : o[i] = o[j] => i = j}

\* parseAuthMap, line 584: the range over config.Auths, a map, visits the
\* entries of the document in an order of its own.
Ranged(secret, order) ==
    [secret EXCEPT !.auths = [i \in 1..Len(secret.auths) |-> secret.auths[order[i]]]]

\* A secret as r.Get returns it: the content under the name asked for.
Fetched(name, content) ==
    [name |-> name, type |-> content.type, decodes |-> content.decodes, auths |-> content.auths]

\* authFromSecret, lines 506-515: after the decoding of the document.
authFromAuthMap(secret, registry, authMap) ==
    IF authMap.err # NoErr THEN [auth |-> NoAuth, err |-> authMap.err]
    ELSE IF registry \notin DOMAIN authMap.auth
    THEN [auth |-> NoAuth,
          err |-> <<"auth for">> \o registry \o <<"not found in secret", secret.name>>]
    ELSE [auth |-> <<authMap.auth[registry]>>, err |-> NoErr]

\* authFromSecret(secret, ref): the authenticator for the registry of ref.
authFromSecret(secret, ref) ==
    IF secret.type # DockerConfigJson
    THEN [auth |-> NoAuth, err |-> <<"unknown secret type", secret.type>>]
    ELSE IF ~secret.decodes
    THEN [auth |-> NoAuth, err |-> <<"invalid character">>]
    ELSE authFromAuthMap(secret, ref.registry, parseAuthMap(secret.auths, EmptyAuthMap))

\* login.NewManager().Login: the authenticator of a provider, nil if none
\* applies, or an error.
Login(e) ==
    IF e.scanFail = "login" THEN [auth |-> NoAuth, err |-> APIError]
    ELSE [auth |-> e.auth, err |-> NoErr]

(* --------------------------------- scan -------------------------------- *)

\* regexp.Compile and MatchString, for the patterns in play.
Compiles(regex) == regex # "["

MatchString(regex, tag) ==
    CASE regex = CosignObjectRegex -> HasSuffix(tag, <<".", "s", "i", "g">>)
      [] regex = "^a" -> HasPrefix(tag, <<"a">>)
      [] OTHER -> FALSE

\* Variant of filterTags: each pattern is applied to what the patterns ahead
\* of it have let pass.
RECURSIVE filterTagsIntersects(_, _, _)
filterTagsIntersects(exclusionList, tags, filteredTags) ==
    IF exclusionList = <<>> THEN [tags |-> tags, err |-> NoErr]
    ELSE LET regex == Head(exclusionList)
         IN  IF ~Compiles(regex)
             THEN [tags |-> filteredTags, err |-> <<"failed to compile regex", regex>>]
             ELSE filterTagsIntersects(Tail(exclusionList),
                                       SelectSeq(tags, LAMBDA tag : ~MatchString(regex, tag)),
                                       filteredTags)

\* The loop over the exclusion list: each pattern is compiled, then the tags
\* it does not match are appended to the result.
RECURSIVE filterTags(_, _, _)
filterTags(exclusionList, tags, filteredTags) ==
    IF exclusionList = <<>> THEN [tags |-> filteredTags, err |-> NoErr]
    ELSE LET regex == Head(exclusionList)
         IN  IF ~Compiles(regex)
             THEN [tags |-> filteredTags, err |-> <<"failed to compile regex", regex>>]
             ELSE filterTags(Tail(exclusionList), tags,
                             filteredTags \o SelectSeq(tags, LAMBDA tag : ~MatchString(regex, tag)))

ScanResult(imageRepo, database, err, calls) ==
    [imageRepo |-> imageRepo, db |-> database, err |-> err, calls |-> calls]

\* A return of scan after marking the object not ready with the error's text.
ScanFailed(imageRepo, database, err, calls) ==
    ScanResult(SetImageRepositoryReadiness(imageRepo, "False", ReconciliationFailedReason, err),
               database, err, calls)

\* Variant of scanStore: the pattern of the signatures is added to every
\* exclusion list.
scanStoreAlwaysDefault(imageRepo, ref, database, now, e, calls, tags) ==
    LET defaulted == [imageRepo EXCEPT !.spec.exclusionList = Append(@, CosignObjectRegex)]
        filtered == filterTags(defaulted.spec.exclusionList, tags, <<>>)
    IN  IF filtered.err # NoErr THEN ScanResult(defaulted, database, filtered.err, calls)
        ELSE IF e.scanFail = "setTags"
        THEN ScanResult(defaulted, database, <<"failed to set tags for", "database write failed">>,
                        Append(calls, "SetTags"))
        ELSE
        LET scanned == [defaulted EXCEPT !.status.lastScanResult =
                            <<[tagCount |-> Len(filtered.tags), scanTime |-> now + e.elapsed]>>]
            token == ReconcileAnnotationValue(scanned.annotations)
            handled == IF token.ok
                       THEN [scanned EXCEPT !.status.lastHandledReconcileRequest = token.val]
                       ELSE scanned
        IN  ScanResult(SetImageRepositoryReadiness(handled, "True", ReconciliationSucceededReason,
                            <<"successful scan, found", Itoa(Len(filtered.tags)), "tags">>),
                       SetTags(database, ref.canonical, filtered.tags), NoErr,
                       Append(calls, "SetTags"))

\* Variant of scanStore: the listed tags are stored before they are filtered.
scanStoreWritesFirst(imageRepo, ref, database, now, e, calls, tags) ==
    LET defaulted == IF Len(imageRepo.spec.exclusionList) = 0
                     THEN [imageRepo EXCEPT !.spec.exclusionList = Append(@, CosignObjectRegex)]
                     ELSE imageRepo
        filtered == filterTags(defaulted.spec.exclusionList, tags, <<>>)
        stored == SetTags(database, ref.canonical, tags)
    IN  IF filtered.err # NoErr THEN ScanResult(defaulted, stored, filtered.err, calls)
        ELSE IF e.scanFail = "setTags"
        THEN ScanResult(defaulted, stored, <<"failed to set tags for", "database write failed">>,
                        Append(calls, "SetTags"))
        ELSE
        LET scanned == [defaulted EXCEPT !.status.lastScanResult =
                            <<[tagCount |-> Len(filtered.tags), scanTime |-> now + e.elapsed]>>]
            token == ReconcileAnnotationValue(scanned.annotations)
            handled == IF token.ok
                       THEN [scanned EXCEPT !.status.lastHandledReconcileRequest = token.val]
                       ELSE scanned
        IN  ScanResult(SetImageRepositoryReadiness(handled, "True", ReconciliationSucceededReason,
                            <<"successful scan, found", Itoa(Len(filtered.tags)), "tags">>),
                       SetTags(database, ref.canonical, filtered.tags), NoErr,
                       Append(calls, "SetTags"))

\* Variant of scanStore: lastScanResult is set before the tags are stored.
scanStoreCountsFirst(imageRepo, ref, database, now, e, calls, tags) ==
    LET defaulted == IF Len(imageRepo.spec.exclusionList) = 0
                     THEN [imageRepo EXCEPT !.spec.exclusionList = Append(@, CosignObjectRegex)]
                     ELSE imageRepo
        filtered == filterTags(defaulted.spec.exclusionList, tags, <<>>)
        scanned == [defaulted EXCEPT !.status.lastScanResult =
                        <<[tagCount |-> Len(filtered.tags), scanTime |-> now + e.elapsed]>>]
        token == ReconcileAnnotationValue(scanned.annotations)
        handled == IF token.ok
                   THEN [scanned EXCEPT !.status.lastHandledReconcileRequest = token.val]
                   ELSE scanned
    IN  IF filtered.err # NoErr THEN ScanResult(defaulted, database, filtered.err, calls)
        ELSE IF e.scanFail = "setTags"
        THEN ScanResult(scanned, database, <<"failed to set tags for", "database write failed">>,
                        Append(calls, "SetTags"))
        ELSE ScanResult(SetImageRepositoryReadiness(handled, "True", ReconciliationSucceededReason,
                            <<"successful scan, found", Itoa(Len(filtered.tags)), "tags">>),
                        SetTags(database, ref.canonical, filtered.tags), NoErr,
                        Append(calls, "SetTags"))

\* scan, from the default exclusion list to the end.
scanStore(imageRepo, ref, database, now, e, calls, tags) ==
    LET defaulted == IF Len(imageRepo.spec.exclusionList) = 0
                     THEN [imageRepo EXCEPT !.spec.exclusionList = Append(@, CosignObjectRegex)]
                     ELSE imageRepo
        filtered == filterTags(defaulted.spec.exclusionList, tags, <<>>)
        canonicalName == ref.canonical
    IN  IF filtered.err # NoErr THEN ScanResult(defaulted, database, filtered.err, calls)
        ELSE IF e.scanFail = "setTags"
        THEN ScanResult(defaulted, database, <<"failed to set tags for", "database write failed">>,
                        Append(calls, "SetTags"))
        ELSE
        LET scanned == [defaulted EXCEPT !.status.lastScanResult =
                            <<[tagCount |-> Len(filtered.tags), scanTime |-> now + e.elapsed]>>]
            token == ReconcileAnnotationValue(scanned.annotations)
            handled == IF token.ok
                       THEN [scanned EXCEPT !.status.lastHandledReconcileRequest = token.val]
                       ELSE scanned
        IN  ScanResult(SetImageRepositoryReadiness(handled, "True", ReconciliationSucceededReason,
                            <<"successful scan, found", Itoa(Len(filtered.tags)), "tags">>),
                       SetTags(database, canonicalName, filtered.tags), NoErr,
                       Append(calls, "SetTags"))

\* scan, from the registry listing on.
scanList(imageRepo, ref, database, now, e, calls) ==
    IF e.scanFail = "list"
    THEN ScanFailed(imageRepo, database, APIError, Append(calls, "List"))
    ELSE scanStore(imageRepo, ref, database, now, e, Append(calls, "List"), e.listing)

\* The loop over the image pull secrets, lines 319-336: n fetches.
PullSecretGets(n) == [i \in 1..n |-> "Get:PullSecret"]

\* Variant of scanServiceAccount: an image pull secret that cannot be
\* fetched is left out of the keychain.
scanServiceAccountSkipsMissing(imageRepo, ref, database, now, e, calls) ==
    IF imageRepo.spec.serviceAccountName = "" THEN scanList(imageRepo, ref, database, now, e, calls)
    ELSE IF e.scanFail = "saGet"
    THEN ScanFailed(imageRepo, database, APIError,
                    Append(calls, "Get:ServiceAccount"))
    ELSE IF e.nPull = 0
    THEN scanList(imageRepo, ref, database, now, e, Append(calls, "Get:ServiceAccount"))
    ELSE IF e.scanFail = "keychain"
    THEN ScanResult(imageRepo, database, APIError,
                    calls \o <<"Get:ServiceAccount">> \o PullSecretGets(e.nPull))
    ELSE scanList(imageRepo, ref, database, now, e,
                  calls \o <<"Get:ServiceAccount">> \o PullSecretGets(e.nPull)
                        \o <<"WithAuthFromKeychain">>)

\* scan, from the service account on: of its e.nPull image pull secrets the
\* fetch of the e.ipsFail-th fails, if any.
scanServiceAccount(imageRepo, ref, database, now, e, calls) ==
    IF imageRepo.spec.serviceAccountName = "" THEN scanList(imageRepo, ref, database, now, e, calls)
    ELSE IF e.scanFail = "saGet"
    THEN ScanFailed(imageRepo, database, APIError,
                    Append(calls, "Get:ServiceAccount"))
    ELSE IF e.nPull = 0
    THEN scanList(imageRepo, ref, database, now, e, Append(calls, "Get:ServiceAccount"))
    ELSE IF e.scanFail = "ipsGet"
    THEN ScanFailed(imageRepo, database, APIError,
                    calls \o <<"Get:ServiceAccount">> \o PullSecretGets(e.ipsFail))
    ELSE IF e.scanFail = "keychain"
    THEN ScanResult(imageRepo, database, APIError,
                    calls \o <<"Get:ServiceAccount">> \o PullSecretGets(e.nPull))
    ELSE scanList(imageRepo, ref, database, now, e,
                  calls \o <<"Get:ServiceAccount">> \o PullSecretGets(e.nPull)
                        \o <<"WithAuthFromKeychain">>)

\* scan, from the certificate secret on.
scanCert(imageRepo, ref, database, now, e, calls) ==
    LET spec == imageRepo.spec
        reuse == spec.secretRef # <<>> /\ spec.secretRef = spec.certSecretRef
        calls2 == IF reuse THEN calls ELSE Append(calls, "Get:CertSecret")
    IN  IF spec.certSecretRef = <<>> THEN scanServiceAccount(imageRepo, ref, database, now, e, calls)
        ELSE IF ~reuse /\ e.scanFail = "certGet"
        THEN ScanFailed(imageRepo, database, APIError, calls2)
        ELSE IF e.scanFail = "transport"
        THEN ScanResult(imageRepo, database, <<"client certificate found, but no key">>, calls2)
        ELSE scanServiceAccount(imageRepo, ref, database, now, e, Append(calls2, "WithTransport"))

\* Variant of scanAuth: a secret without credentials for the registry falls
\* back to the login of the providers.
scanAuthFallsBack(imageRepo, ref, database, now, e, calls, a) ==
    IF a.err # NoErr /\ calls = <<"Get:Secret">>
    THEN scanCert(imageRepo, ref, database, now, e, <<"Get:Secret", "Login">>)
    ELSE IF a.err # NoErr THEN ScanFailed(imageRepo, database, a.err, calls)
    ELSE scanCert(imageRepo, ref, database, now, e,
                  IF a.auth # NoAuth THEN Append(calls, "WithAuth") ELSE calls)

\* scan, lines 259-405: after the authenticator a of the secret or of the
\* login, nil or with an error.
scanAuth(imageRepo, ref, database, now, e, calls, a) ==
    IF a.err # NoErr THEN ScanFailed(imageRepo, database, a.err, calls)
    ELSE scanCert(imageRepo, ref, database, now, e,
                  IF a.auth # NoAuth THEN Append(calls, "WithAuth") ELSE calls)

\* scan(ctx, imageRepo, ref): the in-memory object and the database after it,
\* its error, and the calls it made.
scan(imageRepo, ref, database, now, e) ==
    IF imageRepo.spec.secretRef # <<>>
    THEN IF e.scanFail = "secretGet"
         THEN ScanFailed(imageRepo, database, APIError, <<"Get:Secret">>)
         ELSE scanAuth(imageRepo, ref, database, now, e, <<"Get:Secret">>,
                       authFromSecret(Ranged(Fetched(imageRepo.spec.secretRef[1], e.secret),
                                                    e.order), ref))
    ELSE scanAuth(imageRepo, ref, database, now, e, <<"Login">>, Login(e))

(* ------------------------------- Reconcile ----------------------------- *)

ContainsFinalizer(o, finalizer) == \E i \in 1..Len(o.finalizers) : o.finalizers[i] = finalizer

AddFinalizer(o, finalizer) ==
    IF ContainsFinalizer(o, finalizer) THEN o
    ELSE [o EXCEPT !.finalizers = Append(@, finalizer)]

RemoveFinalizer(o, finalizer) ==
    [o EXCEPT !.finalizers = SelectSeq(@, LAMBDA f : f # finalizer)]

\* A status as the API server stores it: a metav1.Time is written in
\* RFC 3339, to the second.
Persisted(status) ==
    [status EXCEPT !.lastScanResult =
        IF @ = <<>> THEN @
        ELSE <<[@[1] EXCEPT !.scanTime = (@ \div Second) * Second]>>]

\* patchStatus(ctx, req, newStatus): reads the object again and patches its
\* status to newStatus.  fail: the read or the patch fails.
patchStatus(api, newStatus, fail) ==
    IF fail THEN [api |-> api, err |-> <<"status patch failed">>]
    ELSE [api |-> [api EXCEPT !.status = Persisted(newStatus)], err |-> NoErr]

\* r.Update of the object's metadata and spec; the API server removes an
\* object under deletion once its last finalizer is gone.
Update(api, o) ==
    [api EXCEPT !.finalizers = o.finalizers,
                !.exists = ~(api.deletionTimestamp /\ o.finalizers = <<>>)]

Result(requeue, requeueAfter, err) ==
    [Requeue |-> requeue, RequeueAfter |-> requeueAfter, err |-> err]

NoDecision == [ok |-> FALSE, when |-> 0, err |-> NoErr, dbReads |-> -1]

Event(severity, msg) == [severity |-> severity, msg |-> msg]

\* What one pass did: the return path taken and the (ctrl.Result, error)
\* returned, the object in the API server (api) and in the reconciler's
\* memory (imageRepo) and the database at the return, the decision of
\* shouldScan (dbReads = -1: not asked), the calls the scan made and the
\* error it returned, the events emitted and the time the pass took;
\* finalizerPatch, whether the pass called r.Patch, is set by Reconcile.
Outcome(path, result, api, imageRepo, database, sched, calls, scanErr, events, elapsed) ==
    [path |-> path, result |-> result, api |-> api, imageRepo |-> imageRepo, db |-> database,
     sched |-> sched, calls |-> calls, scanErr |-> scanErr, events |-> events, elapsed |-> elapsed,
     finalizerPatch |-> FALSE]

\* Reconcile, lines 199-202: the event of a successful scan.
successEvents(rc) ==
    IF rc # <<>> THEN <<Event(EventSeverityInfo, rc[1].message)>> ELSE <<>>

\* Variant of reconcileScanned: the error of the scan is returned with the
\* wait of the schedule.
reconcileScannedTimedRetry(s, p, sched, e) ==
    IF p.err # NoErr
    THEN Outcome("scanPatchErr", Result(TRUE, 0, p.err), p.api, s.imageRepo, s.db,
                 sched, s.calls, s.err, <<>>, e.elapsed)
    ELSE IF s.err # NoErr
    THEN Outcome("scanErr", Result(FALSE, sched.when, s.err), p.api, s.imageRepo, s.db,
                 sched, s.calls, s.err, <<Event(EventSeverityError, s.err)>>, e.elapsed)
    ELSE Outcome("scanned", Result(FALSE, sched.when, NoErr), p.api, s.imageRepo, s.db,
                 sched, s.calls, s.err,
                 successEvents(FindStatusCondition(s.imageRepo.status.conditions,
                                                   ReconciliationSucceededReason)),
                 e.elapsed)

\* Variant of reconcileScanned: the error of the scan is logged, not returned.
reconcileScannedDropsErr(s, p, sched, e) ==
    IF p.err # NoErr
    THEN Outcome("scanPatchErr", Result(TRUE, 0, p.err), p.api, s.imageRepo, s.db,
                 sched, s.calls, s.err, <<>>, e.elapsed)
    ELSE IF s.err # NoErr
    THEN Outcome("scanErr", Result(FALSE, sched.when, NoErr), p.api, s.imageRepo, s.db,
                 sched, s.calls, s.err, <<Event(EventSeverityError, s.err)>>, e.elapsed)
    ELSE Outcome("scanned", Result(FALSE, sched.when, NoErr), p.api, s.imageRepo, s.db,
                 sched, s.calls, s.err,
                 successEvents(FindStatusCondition(s.imageRepo.status.conditions,
                                                   ReconciliationSucceededReason)),
                 e.elapsed)

\* Variant of reconcileScanned: after a successful scan the wait is what was
\* left of the interval when the pass began.
reconcileScannedWaitsRest(s, p, sched, e) ==
    IF p.err # NoErr
    THEN Outcome("scanPatchErr", Result(TRUE, 0, p.err), p.api, s.imageRepo, s.db,
                 sched, s.calls, s.err, <<>>, e.elapsed)
    ELSE IF s.err # NoErr
    THEN Outcome("scanErr", Result(TRUE, 0, s.err), p.api, s.imageRepo, s.db,
                 sched, s.calls, s.err, <<Event(EventSeverityError, s.err)>>, e.elapsed)
    ELSE Outcome("scanned", Result(FALSE, sched.when - e.elapsed, NoErr), p.api, s.imageRepo, s.db,
                 sched, s.calls, s.err,
                 successEvents(FindStatusCondition(s.imageRepo.status.conditions,
                                                   ReconciliationSucceededReason)),
                 e.elapsed)

\* Variant of reconcileScanned: a successful scan returns the empty result,
\* which asks for no further delivery.
reconcileScannedAsksNothing(s, p, sched, e) ==
    IF p.err # NoErr
    THEN Outcome("scanPatchErr", Result(TRUE, 0, p.err), p.api, s.imageRepo, s.db,
                 sched, s.calls, s.err, <<>>, e.elapsed)
    ELSE IF s.err # NoErr
    THEN Outcome("scanErr", Result(TRUE, 0, s.err), p.api, s.imageRepo, s.db,
                 sched, s.calls, s.err, <<Event(EventSeverityError, s.err)>>, e.elapsed)
    ELSE Outcome("scanned", Result(FALSE, 0, NoErr), p.api, s.imageRepo, s.db,
                 sched, s.calls, s.err,
                 successEvents(FindStatusCondition(s.imageRepo.status.conditions,
                                                   ReconciliationSucceededReason)),
                 e.elapsed)

\* Reconcile, lines 191-210: after the scan s and the status patch p.
reconcileScanned(s, p, sched, e) ==
    IF p.err # NoErr
    THEN Outcome("scanPatchErr", Result(TRUE, 0, p.err), p.api, s.imageRepo, s.db,
                 sched, s.calls, s.err, <<>>, e.elapsed)
    ELSE IF s.err # NoErr
    THEN Outcome("scanErr", Result(TRUE, 0, s.err), p.api, s.imageRepo, s.db,
                 sched, s.calls, s.err, <<Event(EventSeverityError, s.err)>>, e.elapsed)
    ELSE Outcome("scanned", Result(FALSE, sched.when, NoErr), p.api, s.imageRepo, s.db,
                 sched, s.calls, s.err,
                 successEvents(FindStatusCondition(s.imageRepo.status.conditions,
                                                   ReconciliationSucceededReason)),
                 e.elapsed)

\* Variant of reconcilePatch: the object in memory is written as a whole.
reconcilePatchUpdates(api, s, sched, e) ==
    reconcileScanned(s,
        IF e.scanPatchErr THEN [api |-> api, err |-> <<"status patch failed">>]
        ELSE [api |-> [s.imageRepo EXCEPT !.status = Persisted(@)], err |-> NoErr],
        sched, e)

\* Reconcile, line 191: the status patch after the scan s.
reconcilePatch(api, s, sched, e) ==
    reconcileScanned(s, patchStatus(api, s.imageRepo.status, e.scanPatchErr), sched, e)

\* Reconcile, lines 189-210: the scan is due.
reconcileScan(api, imageRepo, ref, database, now, e, sched) ==
    reconcilePatch(api, scan(imageRepo, ref, database, now, e), sched, e)

\* Variant of reconcileDecided: the error of shouldScan is dropped.
reconcileDecidedDropsErr(api, imageRepo, ref, database, now, e, sched) ==
    IF sched.ok
    THEN reconcileScan(api, imageRepo, ref, database, now, e, sched)
    ELSE Outcome("notDue", Result(FALSE, sched.when, NoErr), api, imageRepo, database,
                 sched, <<>>, NoErr, <<>>, 0)

\* Reconcile, lines 186-210: after shouldScan.
reconcileDecided(api, imageRepo, ref, database, now, e, sched) ==
    IF sched.err # NoErr
    THEN Outcome("shouldScanErr", Result(TRUE, 0, sched.err), api, imageRepo, database,
                 sched, <<>>, NoErr, <<>>, 0)
    ELSE IF sched.ok
    THEN reconcileScan(api, imageRepo, ref, database, now, e, sched)
    ELSE Outcome("notDue", Result(FALSE, sched.when, NoErr), api, imageRepo, database,
                 sched, <<>>, NoErr, <<>>, 0)

\* Reconcile, lines 180-210: after the status patch p of the canonical name.
reconcileNamed(p, imageRepo, ref, database, now, e) ==
    IF p.err # NoErr
    THEN Outcome("canonicalPatchErr", Result(TRUE, 0, p.err), p.api, imageRepo, database,
                 NoDecision, <<>>, NoErr, <<>>, 0)
    ELSE reconcileDecided(p.api, imageRepo, ref, database, now, e,
                          shouldScan(imageRepo, now, database, e.fault = "tags"))

\* Variant of reconcileSchedule: the new canonical name is patched, and the
\* object in memory keeps the old one.
reconcileScheduleKeepsName(api, imageRepo, ref, database, now, e) ==
    LET changed == imageRepo.status.canonicalImageName # ref.canonical
        named == IF changed THEN [imageRepo EXCEPT !.status.canonicalImageName = ref.canonical]
                 ELSE imageRepo
    IN  reconcileNamed(IF changed THEN patchStatus(api, named.status, e.fault = "patchStatus")
                       ELSE [api |-> api, err |-> NoErr],
                       imageRepo, ref, database, now, e)

\* Reconcile, lines 177-210: the canonical name and the throttle.
reconcileSchedule(api, imageRepo, ref, database, now, e) ==
    LET changed == imageRepo.status.canonicalImageName # ref.canonical
        named == IF changed THEN [imageRepo EXCEPT !.status.canonicalImageName = ref.canonical]
                 ELSE imageRepo
    IN  reconcileNamed(IF changed THEN patchStatus(api, named.status, e.fault = "patchStatus")
                       ELSE [api |-> api, err |-> NoErr],
                       named, ref, database, now, e)

\* Reconcile, lines 162-174: the image is invalid, err the error returned.
reconcileInvalid(api, imageRepo, err, database, e) ==
    LET p == patchStatus(api, imageRepo.status, e.fault = "patchStatus")
    IN  IF p.err # NoErr
        THEN Outcome("invalidPatchErr", Result(TRUE, 0, p.err), p.api, imageRepo, database,
                     NoDecision, <<>>, NoErr, <<>>, 0)
        ELSE Outcome("imageInvalid", Result(TRUE, 0, err), p.api, imageRepo, database,
                     NoDecision, <<>>, NoErr, <<Event(EventSeverityError, err)>>, 0)

\* Reconcile, lines 162-210: after parseImageReference.
reconcileParsed(api, imageRepo, ref, database, now, e) ==
    IF ref.err = NoErr
    THEN reconcileSchedule(api, imageRepo, ref, database, now, e)
    ELSE reconcileInvalid(api,
             SetImageRepositoryReadiness(imageRepo, "False", ImageURLInvalidReason, ref.err),
             <<"Unable to parse image name:">> \o imageRepo.spec.image \o ref.err,
             database, e)

\* Reconcile, lines 150-210: the metrics reference and the image reference.
reconcileActive(api, imageRepo, database, now, e) ==
    IF e.fault = "getReference"
    THEN Outcome("referenceErr", Result(FALSE, 0, <<"no reference to the object">>),
                 api, imageRepo, database, NoDecision, <<>>, NoErr, <<>>, 0)
    ELSE reconcileParsed(api, imageRepo, parseImageReference(imageRepo.spec.image),
                         database, now, e)

\* Variant of reconcileSuspend: a suspended object is marked and then
\* reconciled like any other.
reconcileSuspendContinues(api, imageRepo, database, now, e) ==
    LET msg == <<"ImageRepository is suspended, skipping reconciliation">>
        marked == SetImageRepositoryReadiness(imageRepo, "False", SuspendedReason, msg)
        p == patchStatus(api, marked.status, e.fault = "patchStatus")
    IN  IF ~imageRepo.spec.suspend THEN reconcileActive(api, imageRepo, database, now, e)
        ELSE IF p.err # NoErr
        THEN Outcome("suspendPatchErr", Result(TRUE, 0, p.err), p.api, marked, database,
                     NoDecision, <<>>, NoErr, <<>>, 0)
        ELSE reconcileActive(p.api, marked, database, now, e)

\* Reconcile, lines 134-148: a suspended object.
reconcileSuspend(api, imageRepo, database, now, e) ==
    LET msg == <<"ImageRepository is suspended, skipping reconciliation">>
        marked == SetImageRepositoryReadiness(imageRepo, "False", SuspendedReason, msg)
        p == patchStatus(api, marked.status, e.fault = "patchStatus")
    IN  IF ~imageRepo.spec.suspend THEN reconcileActive(api, imageRepo, database, now, e)
        ELSE IF p.err # NoErr
        THEN Outcome("suspendPatchErr", Result(TRUE, 0, p.err), p.api, marked, database,
                     NoDecision, <<>>, NoErr, <<>>, 0)
        ELSE Outcome("suspended", Result(FALSE, 0, NoErr), p.api, marked, database,
                     NoDecision, <<>>, NoErr, <<>>, 0)

\* Variant of reconcileDelete: the suspension is looked at before the deletion.
reconcileDeleteUnlessSuspended(api, imageRepo, database, now, e) ==
    LET removed == RemoveFinalizer(imageRepo, ImageRepositoryFinalizer)
    IN  IF imageRepo.spec.suspend \/ ~imageRepo.deletionTimestamp
        THEN reconcileSuspend(api, imageRepo, database, now, e)
        ELSE IF e.fault = "update"
        THEN Outcome("updateErr", Result(FALSE, 0, <<"update failed">>), api, removed, database,
                     NoDecision, <<>>, NoErr, <<>>, 0)
        ELSE Outcome("finalized", Result(FALSE, 0, NoErr), Update(api, removed), removed, database,
                     NoDecision, <<>>, NoErr, <<>>, 0)

\* Variant of reconcileDelete: the tags of the object go with its finalizer.
reconcileDeleteDropsTags(api, imageRepo, database, now, e) ==
    LET removed == RemoveFinalizer(imageRepo, ImageRepositoryFinalizer)
    IN  IF ~imageRepo.deletionTimestamp THEN reconcileSuspend(api, imageRepo, database, now, e)
        ELSE IF e.fault = "update"
        THEN Outcome("updateErr", Result(FALSE, 0, <<"update failed">>), api, removed, database,
                     NoDecision, <<>>, NoErr, <<>>, 0)
        ELSE Outcome("finalized", Result(FALSE, 0, NoErr), Update(api, removed), removed,
                     [k \in DOMAIN database \ {imageRepo.status.canonicalImageName} |-> database[k]],
                     NoDecision, <<>>, NoErr, <<>>, 0)

\* Reconcile, lines 124-132: an object under deletion.
reconcileDelete(api, imageRepo, database, now, e) ==
    LET removed == RemoveFinalizer(imageRepo, ImageRepositoryFinalizer)
    IN  IF ~imageRepo.deletionTimestamp THEN reconcileSuspend(api, imageRepo, database, now, e)
        ELSE IF e.fault = "update"
        THEN Outcome("updateErr", Result(FALSE, 0, <<"update failed">>), api, removed, database,
                     NoDecision, <<>>, NoErr, <<>>, 0)
        ELSE Outcome("finalized", Result(FALSE, 0, NoErr), Update(api, removed), removed, database,
                     NoDecision, <<>>, NoErr, <<>>, 0)

\* Variant of Reconcile: the finalizer is patched in on every pass.
ReconcilePatchesAlways(api, database, now, e) ==
    LET imageRepo == AddFinalizer(api, ImageRepositoryFinalizer)
        patched == [api EXCEPT !.finalizers = imageRepo.finalizers]
    IN  IF ~api.exists
        THEN Outcome("notFound", Result(FALSE, 0, NoErr), api, api, database,
                     NoDecision, <<>>, NoErr, <<>>, 0)
        ELSE IF e.fault = "get"
        THEN Outcome("getErr", Result(FALSE, 0, <<"get failed">>), api, api, database,
                     NoDecision, <<>>, NoErr, <<>>, 0)
        ELSE IF e.fault = "finalizerPatch"
        THEN [Outcome("finalizerErr", Result(FALSE, 0, <<"patch failed">>), api, imageRepo,
                      database, NoDecision, <<>>, NoErr, <<>>, 0)
                 EXCEPT !.finalizerPatch = TRUE]
        ELSE [reconcileDelete(patched, imageRepo, database, now, e)
                 EXCEPT !.finalizerPatch = TRUE]

\* Reconcile(ctx, req), from the read of the object and the finalizer on.
Reconcile(api, database, now, e) ==
    LET missing == ~ContainsFinalizer(api, ImageRepositoryFinalizer)
        imageRepo == AddFinalizer(api, ImageRepositoryFinalizer)
        patched == [api EXCEPT !.finalizers = imageRepo.finalizers]
    IN  IF ~api.exists
        THEN Outcome("notFound", Result(FALSE, 0, NoErr), api, api, database,
                     NoDecision, <<>>, NoErr, <<>>, 0)
        ELSE IF e.fault = "get"
        THEN Outcome("getErr", Result(FALSE, 0, <<"get failed">>), api, api, database,
                     NoDecision, <<>>, NoErr, <<>>, 0)
        ELSE IF missing /\ e.fault = "finalizerPatch"
        THEN [Outcome("finalizerErr", Result(FALSE, 0, <<"patch failed">>), api, imageRepo,
                      database, NoDecision, <<>>, NoErr, <<>>, 0)
                 EXCEPT !.finalizerPatch = TRUE]
        ELSE [reconcileDelete(patched, imageRepo, database, now, e)
                 EXCEPT !.finalizerPatch = missing]

(* ------------------------------ the system ----------------------------- *)

VARIABLES
    repo,    \* the ImageRepository object in the API server
    db,      \* the tag database: canonical name -> tags
    clock,   \* the time, in ticks
    last,    \* the pass that has just returned: <<>> or <<its record>>
    edits,   \* the number of changes the user has made to the object
    workers  \* the passes of further objects that run at the same time

vars == <<repo, db, clock, last, edits, workers>>

EmptyDB == [k \in {} |-> <<>>]

\* No other pass runs at the same time.
NoWorkers == <<>>

EmptyStatus ==
    [canonicalImageName |-> <<>>, lastScanResult |-> <<>>,
     lastHandledReconcileRequest |-> "", conditions |-> <<>>]

\* The specs an object is created with: an image, not suspended, and one of
\* these settings of the interval, the credentials and the exclusion list.
Spec0(interval, secretRef, certSecretRef, serviceAccountName, exclusionList) ==
    [image |-> ImgAlpine, interval |-> interval, suspend |-> FALSE, secretRef |-> secretRef,
     certSecretRef |-> certSecretRef, serviceAccountName |-> serviceAccountName,
     exclusionList |-> exclusionList]

SpecPlain == Spec0(2 * Second, <<>>, <<>>, "", <<>>)
SpecSecret == Spec0(Second, <<"creds">>, <<"creds">>, "", <<"^a">>)
SpecQuick == Spec0(Second, <<>>, <<>>, "", <<"^a">>)
SpecAccount == Spec0(2 * Second, <<>>, <<"certs">>, "sa", <<"^a", CosignObjectRegex>>)
SpecBadRegex == Spec0(2 * Second, <<"creds">>, <<"certs">>, "", <<"[">>)

NewObject(spec) ==
    [exists |-> TRUE, finalizers |-> <<>>, deletionTimestamp |-> FALSE,
     annotations |-> NoAnnotation, spec |-> spec, status |-> EmptyStatus]

\* What a pass meets: at most one failure ahead of the scan (fault), the
\* step at which the scan fails (scanFail), whether the status patch after
\* the scan fails, the registry's listing, the ticks the scan takes, the
\* number of image pull secrets of the service account and which of their
\* fetches fails (ipsFail, 0 for none), the content of the secret of
\* spec.secretRef and the authenticator of the providers' login.
PreFaults == {"get", "finalizerPatch", "update", "getReference", "patchStatus", "tags"}
ScanFaults == {"secretGet", "authFromSecret", "login", "certGet", "transport", "saGet",
               "ipsGet", "keychain", "list", "setTags"}

NoFault ==
    [fault |-> "none", scanFail |-> "none", scanPatchErr |-> FALSE, listing |-> <<TagASig>>,
     elapsed |-> 0, nPull |-> 0, ipsFail |-> 0, secret |-> SecretHub, auth |-> NoAuth,
     order |-> <<1>>]

\* Whether a scan of an object with this spec takes the step.
Applies(step, spec) ==
    CASE step \in {"secretGet", "authFromSecret"} -> spec.secretRef # <<>>
      [] step = "login" -> spec.secretRef = <<>>
      [] step = "certGet" -> spec.certSecretRef # <<>> /\ spec.certSecretRef # spec.secretRef
      [] step = "transport" -> spec.certSecretRef # <<>>
      [] step \in {"saGet", "ipsGet", "keychain"} -> spec.serviceAccountName # ""
      [] OTHER -> TRUE

\* The secrets of spec.secretRef a scan can read: one without an
\* authenticator for the registry of ref iff the scan fails at authFromSecret.
SecretsMet(spec, ref, scanFail) ==
    IF spec.secretRef = <<>> \/ scanFail = "secretGet" THEN {NoFault.secret}
    ELSE {c \in SecretContents :
             scanFail = "authFromSecret"
                 <=> authFromSecret(Fetched(spec.secretRef[1], c), ref).err # NoErr}

\* The authenticators the login of the providers can return to a scan.
AuthsMet(spec, scanFail) ==
    IF spec.secretRef # <<>> \/ scanFail = "login" THEN {NoFault.auth} ELSE ProviderAuths

\* What a scan can meet: a failure at a step the scan takes, or a listing
\* and the time it takes.
ScanEnvs(spec, maxElapsed) ==
    {[NoFault EXCEPT !.scanFail = f, !.scanPatchErr = b] :
        f \in {x \in ScanFaults : Applies(x, spec)}, b \in BOOLEAN}
    \cup
    {[NoFault EXCEPT !.scanPatchErr = b, !.listing = l, !.elapsed = t] :
        b \in BOOLEAN, l \in Listings, t \in 0..maxElapsed}

\* The image pull secrets a scan can meet, as <<nPull, ipsFail>>: of the
\* nPull secrets of the service account the fetch of the ipsFail-th fails,
\* which is the failure of the scan at ipsGet; the keychain has a secret.
PullsMet(spec, scanFail) ==
    IF spec.serviceAccountName = "" THEN {<<0, 0>>}
    ELSE IF scanFail = "ipsGet"
    THEN {q \in (1..MaxPull) \X (1..MaxPull) : q[2] <= q[1]}
    ELSE IF scanFail = "keychain" THEN {<<n, 0>> : n \in 1..MaxPull}
    ELSE {<<n, 0>> : n \in 0..MaxPull}

\* A scan's environment with each set of image pull secrets it can come with.
WithPulls(spec, envs) ==
    UNION {{[e EXCEPT !.nPull = q[1], !.ipsFail = q[2]] : q \in PullsMet(spec, e.scanFail)} :
           e \in envs}

\* The orders in which a scan can range over the auths of the secret c.
OrdersMet(spec, scanFail, c) ==
    IF spec.secretRef = <<>> \/ scanFail = "secretGet" THEN {NoFault.order}
    ELSE Orders(Len(c.auths))

\* A scan's environment with each secret, each order of its auths and each
\* authenticator it can come with.
WithCredentials(spec, ref, envs) ==
    UNION {UNION {{[e EXCEPT !.secret = c, !.auth = a, !.order = o] :
                      a \in AuthsMet(spec, e.scanFail), o \in OrdersMet(spec, e.scanFail, c)} :
                  c \in SecretsMet(spec, ref, e.scanFail)} :
           e \in envs}

\* What a pass on the object can meet, a scan taking up to maxElapsed ticks:
\* a failure ahead of the scan or none and, if the pass then scans, a failure
\* at a step the scan takes or a listing.  A scan that fails at
\* authFromSecret is one that has read a secret without an authenticator.
EnvsFor(api, database, now, maxElapsed) ==
    {[NoFault EXCEPT !.fault = f] : f \in PreFaults \cup {"none"}}
    \cup
    IF Reconcile(api, database, now, NoFault).calls = <<>> THEN {}
    ELSE WithCredentials(api.spec, parseImageReference(api.spec.image),
                         WithPulls(api.spec, ScanEnvs(api.spec, maxElapsed)))

Init ==
    /\ repo = NewObject(SpecPlain)
    /\ db = EmptyDB
    /\ clock = 0
    /\ last = <<>>
    /\ edits = 0
    /\ workers = NoWorkers

InitScan ==
    /\ repo \in {NewObject(s) : s \in {SpecPlain, SpecSecret, SpecAccount, SpecBadRegex}}
    /\ db = EmptyDB
    /\ clock = 0
    /\ last = <<>>
    /\ edits = 0
    /\ workers = NoWorkers

InitTimed ==
    /\ repo \in {NewObject(s) : s \in {SpecPlain, SpecQuick}}
    /\ db = EmptyDB
    /\ clock = 0
    /\ last = <<>>
    /\ edits = 0
    /\ workers = NoWorkers

\* The return of a pass that met e, with outcome out: the API server and the
\* database take what the pass wrote, and the pass is recorded in last.
Returned(out, e) ==
    /\ last = <<>>
    /\ clock + out.elapsed <= MaxTime
    /\ repo' = out.api
    /\ db' = out.db
    /\ clock' = clock + out.elapsed
    /\ last' = <<[pre |-> repo, preDb |-> db, now |-> clock, path |-> out.path,
                  result |-> out.result, imageRepo |-> out.imageRepo,
                  sched |-> out.sched, calls |-> out.calls, scanErr |-> out.scanErr,
                  events |-> out.events, finalizerPatch |-> out.finalizerPatch,
                  met |-> e]>>
    /\ UNCHANGED <<edits, workers>>

\* One reconciliation pass, from the request to the return, meeting e.
Pass(e) == Returned(Reconcile(repo, db, clock, e), e)

\* A pass whose scan takes no time.
ReconcilePass == \E e \in EnvsFor(repo, db, clock, 0) : Pass(e)

\* A pass whose scan may take time.
TimedPass == \E e \in EnvsFor(repo, db, clock, MaxElapsed) : Pass(e)

\* The work queue takes the result of the pass that has returned.
Forget ==
    /\ last # <<>>
    /\ last' = <<>>
    /\ UNCHANGED <<repo, db, clock, edits, workers>>

\* The user suspends or resumes the object.
SetSuspend ==
    /\ last = <<>>
    /\ edits < MaxEdits
    /\ edits' = edits + 1
    /\ repo.exists
    /\ repo' = [repo EXCEPT !.spec.suspend = ~@]
    /\ UNCHANGED <<db, clock, last, workers>>

\* The user changes spec.image.
SetImage ==
    /\ last = <<>>
    /\ edits < MaxEdits
    /\ edits' = edits + 1
    /\ repo.exists
    /\ \E img \in Images \ {repo.spec.image} : repo' = [repo EXCEPT !.spec.image = img]
    /\ UNCHANGED <<db, clock, last, workers>>

\* The index in Tokens of the value the user requests next.
NextToken(annotations) ==
    IF ~annotations.ok THEN 1
    ELSE 1 + CHOOSE j \in 1..Len(Tokens) : Tokens[j] = annotations.val

\* The user requests a reconciliation with a new annotation value.
Annotate ==
    /\ last = <<>>
    /\ edits < MaxEdits
    /\ edits' = edits + 1
    /\ repo.exists
    /\ NextToken(repo.annotations) <= Len(Tokens)
    /\ repo' = [repo EXCEPT !.annotations =
                    [ok |-> TRUE, val |-> Tokens[NextToken(repo.annotations)]]]
    /\ UNCHANGED <<db, clock, last, workers>>

\* The user deletes the object: it stays, with a deletion timestamp, while
\* it has a finalizer.
Delete ==
    /\ last = <<>>
    /\ edits < MaxEdits
    /\ edits' = edits + 1
    /\ repo.exists /\ ~repo.deletionTimestamp
    /\ repo' = [repo EXCEPT !.deletionTimestamp = TRUE, !.exists = (repo.finalizers # <<>>)]
    /\ UNCHANGED <<db, clock, last, workers>>

\* Time passes.
Tick ==
    /\ last = <<>>
    /\ clock < MaxTime
    /\ clock' = clock + 1
    /\ UNCHANGED <<repo, db, edits, last, workers>>

\* The object's life: passes and the user's changes, the clock standing still.
Next == ReconcilePass \/ Forget \/ SetSuspend \/ SetImage \/ Annotate \/ Delete

Spec == Init /\ [][Next]_vars

\* The scan: passes and reconcile requests by annotation, for every setting
\* of the credentials and the exclusion list.
NextScan == ReconcilePass \/ Forget \/ Annotate

SpecScan == InitScan /\ [][NextScan]_vars

\* The schedule: passes, reconcile requests by annotation and the passing of time.
NextTimed == TimedPass \/ Forget \/ Annotate \/ Tick

SpecTimed == InitTimed /\ [][NextTimed]_vars

(* ------------------- two objects with one canonical name ---------------- *)

\* Two ImageRepository objects whose images, docker.io/library/alpine and
\* alpine, have one canonical name, with exclusion lists of their own.  The
\* reconciler runs their passes on two workers (MaxConcurrentReconciles);
\* the passes meet in the database only.  Each object is reconciled at most
\* MaxPasses times.
SharedObjects ==
    <<NewObject(SpecPlain), NewObject([SpecQuick EXCEPT !.image = ImgBare])>>

\* A worker: its object in the API server, where its pass stands (idle, store:
\* ahead of r.Database.SetTags, patch: ahead of the status patch), the
\* outcome its pass is heading for and what it met, the number of its
\* passes, and the place of its last Begin and of its last SetTags among
\* those of all workers, with the list it stored.
Worker(obj) ==
    [obj |-> obj, pc |-> "idle", out |-> <<>>, met |-> NoFault, passes |-> 0,
     began |-> 0, wrote |-> 0, stored |-> <<>>]

Max(S) == CHOOSE x \in S : \A y \in S : y <= x

Begun == Max({workers[w].began : w \in DOMAIN workers})
Written == Max({workers[w].wrote : w \in DOMAIN workers})

InitShared ==
    /\ repo = SharedObjects[1]
    /\ db = EmptyDB
    /\ clock = 0
    /\ last = <<>>
    /\ edits = 0
    /\ workers = [w \in DOMAIN SharedObjects |-> Worker(SharedObjects[w])]

\* What the pass of a worker can meet: the registry answers, or the scan
\* fails at the listing or at the write of the tags.
SharedEnvs(obj, database, now) ==
    {e \in EnvsFor(obj, database, now, 0) :
        e.fault = "none" /\ ~e.scanPatchErr /\ e.scanFail \in {"none", "list", "setTags"}}

\* The pass of worker w on its object, up to its call of SetTags if it
\* makes one and else up to its status patch: out is what Reconcile does
\* with the database as it is now.
Began(w, out, e) ==
    /\ workers' = [workers EXCEPT ![w] =
           [@ EXCEPT !.pc = IF out.scanErr = NoErr /\ out.path = "scanned" THEN "store" ELSE "patch",
                     !.out = <<out>>, !.met = e, !.passes = @ + 1, !.began = Begun + 1]]
    /\ UNCHANGED <<repo, db, clock, last, edits>>

Begin(w) ==
    /\ workers[w].pc = "idle"
    /\ workers[w].passes < MaxPasses
    /\ \E e \in SharedEnvs(workers[w].obj, db, clock) :
           Began(w, Reconcile(workers[w].obj, db, clock, e), e)

\* Variant of Store: the list of worker w is put after the list the database
\* holds under the canonical name by now.
StoreMerges(w) ==
    /\ workers[w].pc = "store"
    /\ LET canonicalName == workers[w].out[1].imageRepo.status.canonicalImageName
           filteredTags == workers[w].out[1].db[canonicalName]
       IN  /\ db' = SetTags(db, canonicalName,
                            Tags(db, canonicalName, FALSE).tags \o filteredTags)
           /\ workers' = [workers EXCEPT ![w] =
                  [@ EXCEPT !.pc = "patch", !.wrote = Written + 1, !.stored = filteredTags]]
    /\ UNCHANGED <<repo, clock, last, edits>>

\* r.Database.SetTags of worker w: the list its scan has filtered replaces
\* what the database holds under the canonical name by now.
Store(w) ==
    /\ workers[w].pc = "store"
    /\ LET canonicalName == workers[w].out[1].imageRepo.status.canonicalImageName
           filteredTags == workers[w].out[1].db[canonicalName]
       IN  /\ db' = SetTags(db, canonicalName, filteredTags)
           /\ workers' = [workers EXCEPT ![w] =
                  [@ EXCEPT !.pc = "patch", !.wrote = Written + 1, !.stored = filteredTags]]
    /\ UNCHANGED <<repo, clock, last, edits>>

\* The status patch of worker w and the return of its pass.
Finish(w) ==
    /\ workers[w].pc = "patch"
    /\ workers' = [workers EXCEPT ![w] =
           [@ EXCEPT !.pc = "idle", !.obj = workers[w].out[1].api, !.out = <<>>]]
    /\ UNCHANGED <<repo, db, clock, last, edits>>

BeginPass == \E w \in DOMAIN workers : Begin(w)
StoreTags == \E w \in DOMAIN workers : Store(w)
FinishPass == \E w \in DOMAIN workers : Finish(w)

NextShared == BeginPass \/ StoreTags \/ FinishPass

SpecShared == InitShared /\ [][NextShared]_vars

(* --------------------------- the work queue ---------------------------- *)

\* shouldScan reads the time only as now.Sub(lastScanTime) (line 477), so
\* the clock is kept from the second of the recorded scan: object r with
\* its scan time moved back by k.
Since(r, k) ==
    IF r.status.lastScanResult = <<>> THEN r
    ELSE [r EXCEPT !.status.lastScanResult[1].scanTime = @ - k]

\* The scan time the API server holds for r.
Recorded(r) == IF r.status.lastScanResult = <<>> THEN 0 ELSE r.status.lastScanResult[1].scanTime

\* The return of a pass that met e, with outcome out, to the work queue;
\* k is the scan time recorded by now.  QueuedPass takes the outcome as the
\* one member of a set.
Queued(out, e, k) ==
    /\ last = <<>>
    /\ clock + out.elapsed <= MaxTime
    /\ repo' = Since(out.api, k)
    /\ db' = out.db
    /\ clock' = clock + out.elapsed - k
    /\ last' = <<[pre |-> Since(repo, k), preDb |-> db, now |-> clock - k, path |-> out.path,
                  result |-> out.result, imageRepo |-> Since(out.imageRepo, k),
                  sched |-> out.sched, calls |-> out.calls, scanErr |-> out.scanErr,
                  events |-> out.events, finalizerPatch |-> out.finalizerPatch,
                  met |-> e]>>
    /\ UNCHANGED <<edits, workers>>

QueuedPass(outs, e) == \E out \in outs : Queued(out, e, Recorded(out.api))

\* What a pass meets when the API server, the database and the registry
\* answer.
Answering(e) == e.fault = "none" /\ e.scanFail = "none" /\ ~e.scanPatchErr

\* What the passes of the work queue meet: every failure, and two of the
\* listings, one of which leaves no tag to store.
QueueEnvs(api, database, now) ==
    {e \in EnvsFor(api, database, now, MaxElapsed) :
        e.auth = NoAuth /\ e.listing \in {<<TagASig>>, <<TagA, TagASig, TagB>>}}

\* A pass delivered by the work queue.
DeliveredPass ==
    \E e \in QueueEnvs(repo, db, clock) : QueuedPass({Reconcile(repo, db, clock, e)}, e)

\* A pass has been delivered and has met no failure.
AnsweredPass == last = <<>> /\ last' # <<>> /\ Answering(last'[1].met)

\* The result p of a pass asks for another delivery: at once, with
\* back-off, after an error or with Requeue, else when RequeueAfter has
\* passed since the return; the empty result asks for none.
Retried(p) == p.result.err # NoErr \/ p.result.Requeue
TimerFired(p, now) ==
    /\ p.result.RequeueAfter > 0
    /\ now - (p.now + p.met.elapsed) >= p.result.RequeueAfter

\* The work queue delivers the request again.
Redeliver ==
    /\ last # <<>>
    /\ Retried(last[1]) \/ TimerFired(last[1], clock)
    /\ last' = <<>>
    /\ UNCHANGED <<repo, db, clock, edits, workers>>

\* A watch event delivers the request ahead of its time.
WatchEvent ==
    /\ last # <<>>
    /\ ~Retried(last[1]) /\ ~TimerFired(last[1], clock)
    /\ edits < MaxEdits
    /\ edits' = edits + 1
    /\ last' = <<>>
    /\ UNCHANGED <<repo, db, clock, workers>>

\* Time passes while the request waits in the work queue.
Wait ==
    /\ last # <<>>
    /\ ~TimerFired(last[1], clock)
    /\ clock < MaxTime
    /\ clock' = clock + 1
    /\ UNCHANGED <<repo, db, edits, last, workers>>

NextQueue == DeliveredPass \/ Redeliver \/ WatchEvent \/ Wait

\* The work queue delivers what it holds, time passes, and the API server,
\* the database and the registry answer again and again.
\* A pass can be delivered whenever the work queue holds no result.
SpecQueue ==
    /\ InitTimed /\ [][NextQueue]_vars
    /\ WF_vars(Redeliver) /\ WF_vars(Wait)
    /\ []<>(last = <<>>) => []<><<AnsweredPass>>_vars

(* ----------------------------- properties ------------------------------ *)

\* The instants and annotations shouldScan is asked about.
Times == 0..(MaxTime + Second)
Annotations == {NoAnnotation} \cup {[ok |-> TRUE, val |-> Tokens[i]] : i \in 1..Len(Tokens)}

Scanned(r) == r.status.lastScanResult # <<>>
Unhandled(r) == r.annotations.ok /\ r.annotations.val # r.status.lastHandledReconcileRequest
StoredTags(r, database) == Tags(database, r.status.canonicalImageName, FALSE).tags
Remaining(r, now) == r.spec.interval - (now - r.status.lastScanResult[1].scanTime)

\* The pass that has just returned called shouldScan / called scan.
Asked(p) == p.sched.dbReads # -1
ScanAttempted(p) == p.calls # <<>> \/ p.scanErr # NoErr \/ p.path = "scanned"
\* The object that pass gave to shouldScan.
Asking(p) ==
    [p.pre EXCEPT !.status.canonicalImageName = parseImageReference(p.pre.spec.image).canonical]

\* C1: a repository without a lastScanResult is due, with the full interval
\* as the wait and no error, at every instant, with any annotation and any
\* database, and the database is not read.
C1_NeverScannedIsDue ==
    /\ \A now \in Times, ann \in Annotations, fail \in BOOLEAN :
          ~Scanned(repo) =>
              shouldScan([repo EXCEPT !.annotations = ann], now, db, fail)
                  = Decision(TRUE, repo.spec.interval, NoErr, 0)
    /\ (last # <<>> /\ Asked(last[1]) /\ ~Scanned(last[1].pre)) =>
          last[1].sched = Decision(TRUE, last[1].pre.spec.interval, NoErr, 0)

\* A pass, later than time 0, over a never-scanned object with an annotation
\* and with tags already in the database.
C1_Witness ==
    /\ last # <<>> /\ Asked(last[1]) /\ ~Scanned(last[1].pre)
    /\ last[1].pre.annotations.ok
    /\ StoredTags(Asking(last[1]), last[1].preDb) # <<>>
    /\ last[1].now > 0
    /\ last[1].sched.ok /\ last[1].sched.dbReads = 0

\* The decision d by the interval alone.
ByInterval(r, now, d) ==
    LET remaining == Remaining(r, now)
    IN  /\ d.err = NoErr
        /\ d.ok <=> remaining < Second
        /\ d.ok => d.when = r.spec.interval
        /\ ~d.ok => d.when = remaining
        /\ remaining = 2 * Second => (~d.ok /\ d.when = 2 * Second)
        /\ remaining = -Second => d.ok
        /\ remaining = Second => ~d.ok

\* C2: with a lastScanResult at T, interval I, no unhandled request and a
\* non-empty list of stored tags, remaining = I - (now - T); due with wait I
\* iff remaining < 1s, else not due with wait remaining; now = T+I-2s is not
\* due with wait 2s, now = T+I+1s is due, remaining = 1s is not due.
C2_DueByInterval ==
    /\ \A now \in Times :
          (Scanned(repo) /\ ~Unhandled(repo) /\ StoredTags(repo, db) # <<>>) =>
              ByInterval(repo, now, shouldScan(repo, now, db, FALSE))
    /\ (last # <<>> /\ Asked(last[1]) /\ last[1].sched.err = NoErr
          /\ Scanned(last[1].pre) /\ ~Unhandled(last[1].pre)
          /\ StoredTags(Asking(last[1]), last[1].preDb) # <<>>) =>
          ByInterval(Asking(last[1]), last[1].now, last[1].sched)

\* A pass with exactly one second of the interval left, which does not scan.
C2_Witness ==
    /\ last # <<>> /\ last[1].path = "notDue"
    /\ ~Unhandled(last[1].pre)
    /\ StoredTags(Asking(last[1]), last[1].preDb) # <<>>
    /\ Remaining(last[1].pre, last[1].now) = Second
    /\ last[1].result.RequeueAfter = Second

\* C3: for a scanned repository an annotation value other than the handled
\* one makes the scan due with the full interval as the wait, at every
\* instant and without a read of the database; a value equal to the handled
\* one changes nothing in the decision.
C3_RequestIsDue ==
    \A ann \in Annotations :
        LET r == [repo EXCEPT !.annotations = ann]
        IN  /\ \A now \in Times, fail \in BOOLEAN :
                  (Scanned(r) /\ Unhandled(r)) =>
                      shouldScan(r, now, db, fail) = Decision(TRUE, r.spec.interval, NoErr, 0)
            /\ \A now \in Times, fail \in BOOLEAN :
                  (Scanned(r) /\ r.annotations.ok /\ ~Unhandled(r)) =>
                      shouldScan(r, now, db, fail)
                          = shouldScan([r EXCEPT !.annotations = NoAnnotation], now, db, fail)
            /\ (last # <<>> /\ Asked(last[1]) /\ Scanned(last[1].pre) /\ Unhandled(last[1].pre)) =>
                  last[1].sched = Decision(TRUE, last[1].pre.spec.interval, NoErr, 0)

\* A pass that scans on request although the whole interval is left and
\* tags are stored.
C3_Witness ==
    /\ last # <<>> /\ Asked(last[1]) /\ Scanned(last[1].pre) /\ Unhandled(last[1].pre)
    /\ StoredTags(Asking(last[1]), last[1].preDb) # <<>>
    /\ Remaining(last[1].pre, last[1].now) = last[1].pre.spec.interval
    /\ last[1].sched.ok /\ last[1].sched.dbReads = 0
    /\ last[1].path = "scanned"

\* C4: for a scanned repository without an unhandled request, no stored tags
\* for status.canonicalImageName makes the scan due at every instant; a
\* repository whose last scan stored no tags is scanned on every pass that
\* gets a decision.
C4_NoTagsIsDue ==
    /\ \A now \in Times :
          (Scanned(repo) /\ ~Unhandled(repo) /\ StoredTags(repo, db) = <<>>) =>
              shouldScan(repo, now, db, FALSE) = Decision(TRUE, repo.spec.interval, NoErr, 1)
    /\ (last # <<>> /\ Asked(last[1]) /\ last[1].sched.err = NoErr
          /\ Scanned(last[1].pre) /\ last[1].pre.status.lastScanResult[1].tagCount = 0
          /\ StoredTags(Asking(last[1]), last[1].preDb) = <<>>) =>
          (last[1].sched.ok /\ ScanAttempted(last[1]))

\* A pass that scans again at the very instant of a scan that found no tags.
C4_Witness ==
    /\ last # <<>> /\ Asked(last[1]) /\ Scanned(last[1].pre) /\ ~Unhandled(last[1].pre)
    /\ last[1].pre.status.lastScanResult[1].tagCount = 0
    /\ last[1].pre.status.canonicalImageName \in DOMAIN last[1].preDb
    /\ StoredTags(last[1].pre, last[1].preDb) = <<>>
    /\ Remaining(last[1].pre, last[1].now) = last[1].pre.spec.interval
    /\ last[1].sched.dbReads = 1
    /\ last[1].path = "scanned"

\* C5: when the read of the database in shouldScan fails the decision is not
\* due, with the error; the pass does not scan, does not write the database,
\* leaves lastScanResult as it was and returns the error with Requeue and
\* without RequeueAfter.
C5_ReadErrorNoScan ==
    /\ \A now \in Times :
          (Scanned(repo) /\ ~Unhandled(repo)) =>
              LET d == shouldScan(repo, now, db, TRUE)
              IN  ~d.ok /\ d.err # NoErr
    /\ (last # <<>> /\ Asked(last[1]) /\ Scanned(last[1].pre) /\ ~Unhandled(last[1].pre)
          /\ last[1].sched.err # NoErr) =>
          /\ ~last[1].sched.ok
          /\ ~ScanAttempted(last[1])
          /\ db = last[1].preDb
          /\ last[1].imageRepo.status.lastScanResult = last[1].pre.status.lastScanResult
          /\ repo.status.lastScanResult = last[1].pre.status.lastScanResult
          /\ last[1].result = Result(TRUE, 0, last[1].sched.err)

\* A pass whose read of the database fails when the interval has passed.
C5_Witness ==
    /\ last # <<>> /\ last[1].sched.err # NoErr
    /\ Remaining(last[1].pre, last[1].now) < Second
    /\ last[1].path = "shouldScanErr"

Called(p, call) == \E i \in 1..Len(p.calls) : p.calls[i] = call
SetTagsError == <<"failed to set tags for", "database write failed">>
Ready(r) == FindStatusCondition(r.status.conditions, ReadyCondition)

\* C6: in a pass whose scan fails at a step ahead of the write (a fetch of a
\* secret or the service account, the credentials or the login, the TLS
\* transport, the keychain, the listing, an exclusion pattern) the database
\* is what it was before the pass, and SetTags is not called.
C6_FailedScanKeepsTags ==
    (last # <<>> /\ last[1].scanErr # NoErr /\ last[1].scanErr # SetTagsError) =>
        /\ db = last[1].preDb
        /\ ~Called(last[1], "SetTags")

\* A scan that fails after the listing, at an exclusion pattern.
C6_Witness ==
    /\ last # <<>> /\ last[1].scanErr # NoErr
    /\ Called(last[1], "List") /\ ~Called(last[1], "SetTags")
    /\ last[1].scanErr # APIError
    /\ last[1].pre.annotations.ok

\* C7: in a pass whose scan returns an error, a failed write of the tags
\* included, status.lastScanResult in memory and in the API server is what
\* it was before the pass.
C7_FailedScanKeepsResult ==
    (last # <<>> /\ last[1].scanErr # NoErr) =>
        /\ last[1].imageRepo.status.lastScanResult = last[1].pre.status.lastScanResult
        /\ repo.status.lastScanResult = last[1].pre.status.lastScanResult

\* A scan of a scanned object that fails at the write of the tags, followed
\* by a status patch that succeeds.
C7_Witness ==
    /\ last # <<>> /\ last[1].scanErr = SetTagsError
    /\ Scanned(last[1].pre)
    /\ last[1].path = "scanErr"

\* C8: in every pass that attempts a scan, whether the scan succeeds or
\* fails, the value of the reconcile request annotation is recorded in
\* status.lastHandledReconcileRequest.
C8_RequestHandledOnAttempt ==
    (last # <<>> /\ ScanAttempted(last[1]) /\ last[1].pre.annotations.ok) =>
        /\ last[1].imageRepo.status.lastHandledReconcileRequest = last[1].pre.annotations.val
        /\ last[1].path \in {"scanned", "scanErr"} =>
              repo.status.lastHandledReconcileRequest = last[1].pre.annotations.val

\* The suspended objects a pass gets to read and to guard with the finalizer.
OnSuspended(p) ==
    /\ p.pre.exists /\ p.pre.spec.suspend /\ ~p.pre.deletionTimestamp
    /\ p.path \notin {"getErr", "finalizerErr"}

Suspended(r) ==
    /\ Ready(r) # <<>>
    /\ Ready(r)[1].status = "False"
    /\ Ready(r)[1].reason = SuspendedReason

\* C9: a pass over a suspended object that is not under deletion sets Ready
\* to False with reason Suspended, parses no image, asks for no decision,
\* makes no call for credentials or to the registry, writes no tags, leaves
\* lastScanResult as it was and, when the status patch succeeds, returns no
\* error, no Requeue and no RequeueAfter.
C9_SuspendedSkips ==
    (last # <<>> /\ OnSuspended(last[1])) =>
        /\ last[1].path \in {"suspended", "suspendPatchErr"}
        /\ Suspended(last[1].imageRepo)
        /\ ~Asked(last[1]) /\ ~ScanAttempted(last[1])
        /\ db = last[1].preDb
        /\ last[1].imageRepo.status.canonicalImageName = last[1].pre.status.canonicalImageName
        /\ repo.status.canonicalImageName = last[1].pre.status.canonicalImageName
        /\ last[1].imageRepo.status.lastScanResult = last[1].pre.status.lastScanResult
        /\ repo.status.lastScanResult = last[1].pre.status.lastScanResult
        /\ last[1].path = "suspended" =>
              (Suspended(repo) /\ last[1].result = Result(FALSE, 0, NoErr))

\* A pass over a suspended, scanned object whose image has changed since.
C9_Witness ==
    /\ last # <<>> /\ OnSuspended(last[1])
    /\ last[1].path = "suspended"
    /\ Scanned(last[1].pre)
    /\ Asking(last[1]).status.canonicalImageName # last[1].pre.status.canonicalImageName

\* The objects under deletion a pass gets to read.
OnDeleted(p) ==
    /\ p.pre.exists /\ p.pre.deletionTimestamp
    /\ p.path \notin {"getErr", "finalizerErr"}

\* C10: a pass over an object under deletion removes the finalizer and
\* stops: no scan, no write of the tags, lastScanResult and
\* canonicalImageName as they were, no Requeue and no RequeueAfter; also
\* when the object is suspended.
C10_DeletionStops ==
    (last # <<>> /\ OnDeleted(last[1])) =>
        /\ last[1].path \in {"finalized", "updateErr"}
        /\ ~ContainsFinalizer(last[1].imageRepo, ImageRepositoryFinalizer)
        /\ last[1].path = "finalized" =>
              (~ContainsFinalizer(repo, ImageRepositoryFinalizer) /\ last[1].result.err = NoErr)
        /\ ~Asked(last[1]) /\ ~ScanAttempted(last[1])
        /\ db = last[1].preDb
        /\ last[1].imageRepo.status = last[1].pre.status
        /\ repo.status = last[1].pre.status
        /\ ~last[1].result.Requeue /\ last[1].result.RequeueAfter = 0

\* A pass over a suspended object under deletion, which held the finalizer.
C10_Witness ==
    /\ last # <<>> /\ OnDeleted(last[1])
    /\ last[1].pre.spec.suspend
    /\ ContainsFinalizer(last[1].pre, ImageRepositoryFinalizer)
    /\ last[1].path = "finalized"
    /\ ~repo.exists

\* The passes that get to read the object.
Read(p) == p.pre.exists /\ p.path # "getErr"

Count(finalizers, finalizer) ==
    Cardinality({i \in 1..Len(finalizers) : finalizers[i] = finalizer})

\* C11: a pass over an object without the finalizer patches it in, once and
\* ahead of the deletion, suspension and scan steps; a pass over an object
\* with the finalizer makes no such patch; after a pass that got past the
\* finalizer, over an object not under deletion, the finalizer is there
\* exactly once; if the patch fails the pass returns its error and does
\* nothing else.
C11_FinalizerFirst ==
    (last # <<>> /\ Read(last[1])) =>
        /\ last[1].finalizerPatch <=> ~ContainsFinalizer(last[1].pre, ImageRepositoryFinalizer)
        /\ last[1].path = "finalizerErr" =>
              /\ last[1].result.err # NoErr
              /\ repo = last[1].pre /\ db = last[1].preDb
              /\ ~Asked(last[1]) /\ ~ScanAttempted(last[1]) /\ last[1].events = <<>>
        /\ (last[1].path # "finalizerErr" /\ ~last[1].pre.deletionTimestamp) =>
              /\ Count(repo.finalizers, ImageRepositoryFinalizer) = 1
              /\ Count(last[1].imageRepo.finalizers, ImageRepositoryFinalizer) = 1

\* A pass over a suspended object without the finalizer: the status patch of
\* the suspension fails, the finalizer is in the API server all the same.
C11_Witness ==
    /\ last # <<>> /\ Read(last[1])
    /\ ~ContainsFinalizer(last[1].pre, ImageRepositoryFinalizer)
    /\ last[1].pre.spec.suspend
    /\ last[1].path = "suspendPatchErr"
    /\ last[1].finalizerPatch
    /\ Count(repo.finalizers, ImageRepositoryFinalizer) = 1

\* The passes that get to parse the image of the object.
Parsing(p) ==
    /\ Read(p) /\ ~p.pre.deletionTimestamp /\ ~p.pre.spec.suspend
    /\ p.path \notin {"finalizerErr", "referenceErr"}

ImageInvalid(r) ==
    /\ Ready(r) # <<>>
    /\ Ready(r)[1].status = "False"
    /\ Ready(r)[1].reason = ImageURLInvalidReason

\* The part of C12 on the marking: a pass over an image with a URL scheme
\* or a tag marks the object not ready with reason ImageURLInvalid, does not
\* scan and does not touch the database.
C12_InvalidImageMarked ==
    (last # <<>> /\ Parsing(last[1]) /\ last[1].pre.spec.image \in {ImgScheme, ImgTagged}) =>
        /\ last[1].path \in {"imageInvalid", "invalidPatchErr"}
        /\ ImageInvalid(last[1].imageRepo)
        /\ last[1].path = "imageInvalid" => ImageInvalid(repo)
        /\ ~Asked(last[1]) /\ ~ScanAttempted(last[1])
        /\ db = last[1].preDb

\* C12: a pass over an image with a URL scheme or a tag marks the object not
\* ready with reason ImageURLInvalid, does not scan, does not touch the
\* database and asks for no retry, neither timed nor by backoff: no
\* Requeue, no RequeueAfter, no error.
C12_InvalidImageNoRetry ==
    /\ C12_InvalidImageMarked
    /\ (last # <<>> /\ Parsing(last[1]) /\ last[1].pre.spec.image \in {ImgScheme, ImgTagged}
          /\ last[1].path = "imageInvalid") =>
          last[1].result = Result(FALSE, 0, NoErr)

\* C13: every return of Reconcile carries at most one signal: a RequeueAfter
\* other than 0 comes with no error and without Requeue, and every error
\* comes with RequeueAfter = 0.
C13_OneSignal ==
    last # <<>> =>
        /\ last[1].result.RequeueAfter # 0 =>
              (last[1].result.err = NoErr /\ ~last[1].result.Requeue)
        /\ last[1].result.err # NoErr => last[1].result.RequeueAfter = 0

\* A pass that scans and returns the wait of the schedule.
C13_Witness ==
    /\ last # <<>> /\ last[1].path = "scanned"
    /\ last[1].result.RequeueAfter = last[1].pre.spec.interval
    /\ last[1].result.RequeueAfter > 0
    /\ last[1].result.err = NoErr

\* C14: when the scan fails, the expiry of the timeout in a fetch of
\* credentials or in the listing included, the pass returns an error with
\* Requeue and RequeueAfter = 0 (the error of the scan, when the status
\* patch after it succeeds).
C14_FailedScanBacksOff ==
    (last # <<>> /\ last[1].scanErr # NoErr) =>
        /\ last[1].result.Requeue
        /\ last[1].result.RequeueAfter = 0
        /\ last[1].result.err # NoErr
        /\ last[1].path = "scanErr" => last[1].result.err = last[1].scanErr

\* A scan whose listing runs into the timeout, the decision carrying a wait.
C14_Witness ==
    /\ last # <<>> /\ last[1].scanErr = APIError
    /\ last[1].calls[Len(last[1].calls)] = "List"
    /\ last[1].sched.when > 0
    /\ last[1].path = "scanErr"
    /\ last[1].result = Result(TRUE, 0, APIError)

\* The pass scanned and the scan returned no error; the tags it has stored.
ScanSucceeded(p) == ScanAttempted(p) /\ p.scanErr = NoErr
Stored(p, database) == database[Asking(p).status.canonicalImageName]

EndsInSig(tag) == HasSuffix(tag, <<".", "s", "i", "g">>)

\* C15: with an empty exclusion list a scan stores the listed tags that do
\* not end in ".sig", each once and in the order of the listing
\* (v1.0.0, v1.0.0.sig, latest is stored as v1.0.0, latest); with an
\* exclusion list of its own the pattern of the signatures is not applied.
C15_DefaultExclusion ==
    (last # <<>> /\ ScanSucceeded(last[1])) =>
        /\ last[1].pre.spec.exclusionList = <<>> =>
              Stored(last[1], db) = SelectSeq(last[1].met.listing, LAMBDA tag : ~EndsInSig(tag))
        /\ (last[1].pre.spec.exclusionList = <<>>
              /\ last[1].met.listing = <<V100, V100Sig, Latest>>) =>
              Stored(last[1], db) = <<V100, Latest>>
        /\ Len(last[1].pre.spec.exclusionList) = 1 =>
              Stored(last[1], db) =
                  SelectSeq(last[1].met.listing,
                            LAMBDA tag : ~MatchString(last[1].pre.spec.exclusionList[1], tag))

\* A scan with an empty exclusion list of the listing v1.0.0, v1.0.0.sig, latest.
C15_Witness ==
    /\ last # <<>> /\ ScanSucceeded(last[1])
    /\ last[1].pre.spec.exclusionList = <<>>
    /\ last[1].met.listing = <<V100, V100Sig, Latest>>
    /\ Stored(last[1], db) = <<V100, Latest>>

Range(seq) == {seq[i] : i \in 1..Len(seq)}

\* C16: after a successful scan, for an exclusion list of one or of several
\* patterns, no tag stored under the canonical name matches a pattern of the
\* object's exclusion list.
C16_NoExcludedTagStored ==
    (last # <<>> /\ ScanSucceeded(last[1])) =>
        \A tag \in Range(Stored(last[1], db)) :
            \A regex \in Range(last[1].pre.spec.exclusionList) : ~MatchString(regex, tag)

\* The part of C16 on the lists of one pattern.
C16_OnePattern ==
    (last # <<>> /\ ScanSucceeded(last[1]) /\ Len(last[1].pre.spec.exclusionList) = 1) =>
        \A tag \in Range(Stored(last[1], db)) :
            ~MatchString(last[1].pre.spec.exclusionList[1], tag)

\* C17: the list of tags a scan stores holds each tag at most once, in the
\* order of the registry's listing, for every exclusion list, those of two
\* or more patterns included.
C17_StoredOnceInOrder ==
    (last # <<>> /\ ScanSucceeded(last[1])) =>
        /\ Cardinality(Range(Stored(last[1], db))) = Len(Stored(last[1], db))
        /\ Stored(last[1], db) =
              SelectSeq(last[1].met.listing, LAMBDA tag : tag \in Range(Stored(last[1], db)))

\* The part of C17 on the lists of at most one pattern.
C17_OnePattern ==
    (last # <<>> /\ ScanSucceeded(last[1]) /\ Len(last[1].pre.spec.exclusionList) <= 1) =>
        /\ Cardinality(Range(Stored(last[1], db))) = Len(Stored(last[1], db))
        /\ Stored(last[1], db) =
              SelectSeq(last[1].met.listing, LAMBDA tag : tag \in Range(Stored(last[1], db)))

\* C18: the default of an empty exclusion list never reaches the object in
\* the API server: after a pass, whether its scan succeeded or failed, the
\* spec there is the spec of before, its exclusion list still empty.
C18_SpecNotPersisted ==
    (last # <<>> /\ Read(last[1])) =>
        /\ repo.spec = last[1].pre.spec
        /\ last[1].pre.spec.exclusionList = <<>> => repo.spec.exclusionList = <<>>

\* A scan that has put the default into the exclusion list in memory,
\* followed by a status patch that succeeds.
C18_Witness ==
    /\ last # <<>> /\ ScanAttempted(last[1])
    /\ last[1].pre.spec.exclusionList = <<>>
    /\ last[1].imageRepo.spec.exclusionList = <<CosignObjectRegex>>
    /\ last[1].path \in {"scanned", "scanErr"}
    /\ repo.status # last[1].pre.status
    /\ repo.spec.exclusionList = <<>>

\* Ready is False in r, with the text of err as its message.
NotReadyWith(r, err) ==
    /\ Ready(r) # <<>>
    /\ Ready(r)[1].status = "False"
    /\ Ready(r)[1].message = err

\* C19: after a pass whose scan returns an error, whatever the step that
\* failed, the Ready condition is False and its message is the text of the
\* error; an object that was Ready=True is not left so.
C19_FailedScanNotReady ==
    (last # <<>> /\ last[1].scanErr # NoErr) =>
        /\ NotReadyWith(last[1].imageRepo, last[1].scanErr)
        /\ last[1].path = "scanErr" => NotReadyWith(repo, last[1].scanErr)

\* The part of C19 on the steps that mark the object: the fetches of the
\* secrets and of the service account, the credentials, the login and the
\* listing.
C19_MarkingSteps ==
    (last # <<>> /\ last[1].scanErr # NoErr
       /\ last[1].met.scanFail \in {"secretGet", "authFromSecret", "login", "certGet",
                                    "saGet", "ipsGet", "list"}) =>
        /\ NotReadyWith(last[1].imageRepo, last[1].scanErr)
        /\ last[1].path = "scanErr" => NotReadyWith(repo, last[1].scanErr)

\* C20: a failure on the side of the events and metrics, that of the object
\* reference for the metrics included, does not make the pass return an
\* error and does not keep it from parsing, scheduling and scanning: the
\* pass ends as it does without the failure.
C20_MetricsFailureHarmless ==
    (last # <<>> /\ last[1].met.fault = "getReference") =>
        LET o == Reconcile(last[1].pre, last[1].preDb, last[1].now,
                           [last[1].met EXCEPT !.fault = "none"])
        IN  /\ last[1].path = o.path
            /\ last[1].result = o.result
            /\ repo = o.api
            /\ db = o.db

InfoEvents(p) == SelectSeq(p.events, LAMBDA ev : ev.severity = EventSeverityInfo)
ErrorEvents(p) == SelectSeq(p.events, LAMBDA ev : ev.severity = EventSeverityError)

\* The message a successful scan leaves in the Ready condition.
SuccessMessage(p) == Ready(p.imageRepo)[1].message

\* C21: a pass whose scan succeeded, its status patch too, emits one event of
\* severity info carrying the success message; a pass whose scan failed,
\* its status patch succeeding, emits one event of severity error carrying
\* the error of the scan; a pass that does not scan emits neither.
C21_ScanEvents ==
    last # <<>> =>
        /\ last[1].path = "scanned" =>
              last[1].events = <<Event(EventSeverityInfo, SuccessMessage(last[1]))>>
        /\ last[1].path = "scanErr" =>
              last[1].events = <<Event(EventSeverityError, last[1].scanErr)>>
        /\ ~ScanAttempted(last[1]) =>
              (InfoEvents(last[1]) = <<>>
                 /\ \A i \in 1..Len(last[1].events) : last[1].path = "imageInvalid")

\* The part of C21 on the failed scans and on the passes without a scan.
C21_FailureEvent ==
    last # <<>> =>
        /\ last[1].path = "scanErr" =>
              last[1].events = <<Event(EventSeverityError, last[1].scanErr)>>
        /\ ~ScanAttempted(last[1]) =>
              (InfoEvents(last[1]) = <<>>
                 /\ \A i \in 1..Len(last[1].events) : last[1].path = "imageInvalid")

\* What the code does after a successful scan: the condition of type Ready
\* holds the success message, no condition has ReconciliationSucceeded as
\* its type, and no event is emitted.
C21_NoSuccessEvent ==
    (last # <<>> /\ last[1].path = "scanned") =>
        /\ Ready(last[1].imageRepo)[1].reason = ReconciliationSucceededReason
        /\ FindStatusCondition(last[1].imageRepo.status.conditions,
                               ReconciliationSucceededReason) = <<>>
        /\ last[1].events = <<>>

\* C22: in a pass that scans an object with spec.secretRef the login of the
\* providers is not called, also when the secret holds no credentials for
\* the registry; in one that scans an object without spec.secretRef it is
\* called exactly once; when it returns neither an authenticator nor an
\* error the scan goes on to the listing, with no authenticator among its
\* options, and fails only if a later step fails.
C22_FirstMatchWins ==
    (last # <<>> /\ ScanAttempted(last[1])) =>
        /\ last[1].pre.spec.secretRef # <<>> =>
              (Called(last[1], "Get:Secret") /\ ~Called(last[1], "Login"))
        /\ last[1].pre.spec.secretRef = <<>> =>
              (Count(last[1].calls, "Login") = 1 /\ ~Called(last[1], "Get:Secret"))
        /\ (last[1].pre.spec.secretRef = <<>> /\ last[1].met.scanFail # "login") =>
              (Called(last[1], "WithAuth") <=> last[1].met.auth # NoAuth)
        /\ (last[1].pre.spec.secretRef = <<>> /\ last[1].met.auth = NoAuth
              /\ last[1].met.scanFail = "none") =>
              /\ Called(last[1], "List")
              /\ last[1].pre.spec.exclusionList # <<"[">> => last[1].scanErr = NoErr

\* A scan with a secret that holds credentials for another registry only.
C22_Witness ==
    /\ last # <<>> /\ ScanAttempted(last[1])
    /\ last[1].pre.spec.secretRef # <<>>
    /\ last[1].met.secret = SecretGhcr
    /\ last[1].scanErr = <<"auth for", "index.docker.io", "not found in secret", "creds">>
    /\ last[1].calls = <<"Get:Secret">>

\* A scan without a secret whose login returns nil: the listing is anonymous.
C22_Anonymous ==
    /\ last # <<>> /\ last[1].path = "scanned"
    /\ last[1].pre.spec.secretRef = <<>>
    /\ last[1].met.auth = NoAuth
    /\ last[1].calls = <<"Login", "List", "SetTags">>

\* The steps of a scan that fetch or build credentials and mark the object
\* when they fail.
CredentialSteps == {"secretGet", "authFromSecret", "login", "certGet", "saGet", "ipsGet"}

\* The error of a secret that yields no authenticator for index.docker.io.
SecretError(content, name) ==
    CASE content = SecretOpaque -> <<"unknown secret type", "Opaque">>
      [] content = SecretGarbled -> <<"invalid character">>
      [] content = SecretGhcr -> <<"auth for", "index.docker.io", "not found in secret", name>>
      [] content = SecretBadKey -> <<"Empty url">>
      [] OTHER -> NoErr

\* The error the scan of pass p is to return for the credential step that failed.
CredentialError(p) ==
    IF p.met.scanFail = "authFromSecret"
    THEN SecretError(p.met.secret, p.pre.spec.secretRef[1])
    ELSE APIError

\* C23: when a credential step of a scan fails (the fetch of the secret of
\* secretRef, a secret of another type, a secret without an entry for the
\* registry, the login of the providers, the fetch of the secret of
\* certSecretRef, of the service account or of one of its image pull
\* secrets) the registry is not listed and no tags are written, the scan
\* returns the error of that step, and Ready is False with the error's text,
\* in memory and, when the status patch succeeds, in the API server.
C23_CredentialFailureAborts ==
    (last # <<>> /\ ScanAttempted(last[1]) /\ last[1].met.scanFail \in CredentialSteps) =>
        /\ ~Called(last[1], "List") /\ ~Called(last[1], "SetTags")
        /\ db = last[1].preDb
        /\ last[1].scanErr # NoErr
        /\ last[1].scanErr = CredentialError(last[1])
        /\ NotReadyWith(last[1].imageRepo, last[1].scanErr)
        /\ last[1].path = "scanErr" =>
              (NotReadyWith(repo, last[1].scanErr) /\ last[1].result.err = last[1].scanErr)

\* A scan for which the fetch of the second of two image pull secrets fails,
\* after the certificate secret and the service account were fetched.
C23_Witness ==
    /\ last # <<>> /\ last[1].met.scanFail = "ipsGet"
    /\ last[1].met.nPull = 2 /\ last[1].met.ipsFail = 2
    /\ last[1].calls = <<"Login", "Get:CertSecret", "WithTransport", "Get:ServiceAccount",
                         "Get:PullSecret", "Get:PullSecret">>
    /\ last[1].path = "scanErr"
    /\ NotReadyWith(repo, APIError)

\* A scan that reads a secret of another type than a pull secret.
C23_WrongType ==
    /\ last # <<>> /\ last[1].met.scanFail = "authFromSecret"
    /\ last[1].met.secret = SecretOpaque
    /\ last[1].calls = <<"Get:Secret">>
    /\ NotReadyWith(repo, <<"unknown secret type", "Opaque">>)

Host(h) == [host |-> h, err |-> NoErr]

\* The lists of at most two entries of auths, over the keys in play.
AuthEntries == {[url |-> k, entry |-> "entry"] : k \in AuthKeys}
AuthLists == {<<>>} \cup {<<x>> : x \in AuthEntries}
                 \cup {<<x, y>> : x \in AuthEntries, y \in AuthEntries}

KeyFails(auths) == \E i \in 1..Len(auths) : getURLHost(auths[i].url).err # NoErr

\* C24, for the keys as such: "https://index.docker.io/v2/",
\* "index.docker.io" and "http://index.docker.io" yield the host
\* index.docker.io, a port stays part of the host, "http://" and "https://"
\* yield an error and no host; parseAuthMap returns an error and no map iff
\* one of the keys yields an error, and else a map with the host of every key.
C24_Keys ==
    /\ getURLHost(KeyHubV2) = Host(<<"index.docker.io">>)
    /\ getURLHost(KeyHub) = Host(<<"index.docker.io">>)
    /\ getURLHost(KeyHubHTTP) = Host(<<"index.docker.io">>)
    /\ getURLHost(KeyLocal) = Host(<<"localhost", ":", "5000">>)
    /\ getURLHost(KeyLocalV2) = Host(<<"localhost", ":", "5000">>)
    /\ \A k \in {KeyEmptyHTTP, KeyEmptyHTTPS} :
          getURLHost(k).err # NoErr /\ getURLHost(k).host = <<>>
    /\ \A auths \in AuthLists :
          LET parsed == parseAuthMap(auths, EmptyAuthMap)
          IN  /\ parsed.err # NoErr <=> KeyFails(auths)
              /\ parsed.err # NoErr => parsed.auth = EmptyAuthMap
              /\ parsed.err = NoErr =>
                    DOMAIN parsed.auth = {getURLHost(auths[i].url).host : i \in 1..Len(auths)}

\* C24: getURLHost yields the bare host of a key of a pull secret, a port
\* included, and an error for "http://" and "https://"; parseAuthMap fails
\* as a whole when one key fails: a scan that reads a secret with an entry
\* for the registry and a key "http://" returns the error of that key and
\* does not list the registry.
C24_KeysNormalised ==
    /\ C24_Keys
    /\ (last # <<>> /\ ScanAttempted(last[1]) /\ last[1].pre.spec.secretRef # <<>>
          /\ last[1].met.scanFail # "secretGet"
          /\ last[1].met.secret.type = DockerConfigJson /\ last[1].met.secret.decodes
          /\ KeyFails(last[1].met.secret.auths)) =>
          /\ last[1].scanErr = <<"Empty url">>
          /\ ~Called(last[1], "List")

\* A scan that reads the secret with the keys "index.docker.io" and "http://".
C24_Witness ==
    /\ last # <<>> /\ ScanAttempted(last[1])
    /\ last[1].met.secret = SecretBadKey
    /\ getURLHost(last[1].met.secret.auths[1].url) = Host(<<"index.docker.io">>)
    /\ last[1].scanErr = <<"Empty url">>
    /\ last[1].calls = <<"Get:Secret">>

Accepted(registry, canonical) == [err |-> NoErr, registry |-> registry, canonical |-> canonical]
Rejected(err) == [err |-> err, registry |-> <<>>, canonical |-> <<>>]
SchemeError(scheme) ==
    <<".spec.image value should not start with URL scheme; remove", scheme, "://">>
TagError(tag) == <<".spec.image value should not contain a tag; remove", ":", tag>>

\* What parseImageReference is to return for the values in play.
Parsed(url) ==
    CASE url = ImgAlpine ->
            Accepted(<<"index.docker.io">>, <<"index.docker.io", "/", "library", "/", "alpine">>)
      [] url = ImgBare ->
            Accepted(<<"index.docker.io">>, <<"index.docker.io", "/", "library", "/", "alpine">>)
      [] url = ImgLocal ->
            Accepted(<<"localhost", ":", "5000">>, <<"localhost", ":", "5000", "/", "app">>)
      [] url = ImgScheme -> Rejected(SchemeError("https"))
      [] url = ImgLocalScheme -> Rejected(SchemeError("http"))
      [] url = ImgTagged -> Rejected(TagError("latest"))
      [] url = ImgBareTagged -> Rejected(TagError("latest"))
      [] url = ImgLocalTagged -> Rejected(TagError("v1"))
      [] url = ImgUpper -> Rejected(<<"could not parse reference">>)

\* C25, for the function as such.
C25_References == \A url \in ImageInputs : parseImageReference(url) = Parsed(url)

\* C25: parseImageReference accepts a registry and repository without scheme
\* and without tag, a registry with a port included, and rejects a value
\* with "://" by an error naming the scheme and a value with a ":" after the
\* registry by an error naming the tag; a pass over an accepted image goes
\* on to the canonical name, a pass over a rejected one stops with that error
\* as the message of the Ready condition.
C25_ReferenceValidated ==
    /\ C25_References
    /\ (last # <<>> /\ Parsing(last[1])) =>
          LET ref == Parsed(last[1].pre.spec.image)
          IN  /\ ref.err = NoErr =>
                    /\ last[1].path \notin {"imageInvalid", "invalidPatchErr"}
                    /\ last[1].imageRepo.status.canonicalImageName = ref.canonical
              /\ ref.err # NoErr =>
                    /\ last[1].path \in {"imageInvalid", "invalidPatchErr"}
                    /\ NotReadyWith(last[1].imageRepo, ref.err)

\* A pass over localhost:5000/app, whose registry holds a ":", that scans.
C25_Witness ==
    /\ last # <<>> /\ Parsing(last[1])
    /\ last[1].pre.spec.image = ImgLocal
    /\ last[1].path = "scanned"
    /\ repo.status.canonicalImageName = <<"localhost", ":", "5000", "/", "app">>

\* A pass over docker.io/library/alpine:latest.
C25_Tagged ==
    /\ last # <<>> /\ Parsing(last[1])
    /\ last[1].pre.spec.image = ImgTagged
    /\ last[1].path = "imageInvalid"
    /\ NotReadyWith(repo, TagError("latest"))

\* The canonical name the two objects share, the workers that have written
\* under it and the one that wrote last.
SharedName == <<"index.docker.io", "/", "library", "/", "alpine">>
Writers == {w \in DOMAIN workers : workers[w].wrote > 0}
LastWriter == CHOOSE w \in Writers : workers[w].wrote = Written

\* The list a scan is to store: what each pattern of the exclusion list, or
\* of the default, lets pass of the listing.
Defaulted(exclusionList) ==
    IF exclusionList = <<>> THEN <<CosignObjectRegex>> ELSE exclusionList
Filtered(w) ==
    filterTags(Defaulted(workers[w].obj.spec.exclusionList), workers[w].met.listing, <<>>).tags

\* C26: while the passes of two objects with one canonical name run at the
\* same time, whatever their interleaving, the database holds under that
\* name, at every instant, nothing (no scan has written yet) or the whole
\* list of the scan that called SetTags last: the filtered list of that
\* scan, not a part of it and not a merge of the lists of both.
C26_LastWriterWins ==
    workers # NoWorkers =>
        /\ DOMAIN db \subseteq {SharedName}
        /\ Writers = {} => db = EmptyDB
        /\ Writers # {} => db[SharedName] = workers[LastWriter].stored
        /\ \A w \in DOMAIN workers :
              (workers[w].pc = "patch" /\ workers[w].out[1].path = "scanned") =>
                  (workers[w].stored = Filtered(w) /\ workers[w].wrote > 0)

\* Both passes are over: the first worker began first and wrote last, the
\* lists of the two differ, and the database holds the list of the first.
C26_Witness ==
    /\ workers # NoWorkers
    /\ \A w \in DOMAIN workers : workers[w].pc = "idle" /\ workers[w].passes = 1
    /\ workers[1].began < workers[2].began
    /\ 0 < workers[2].wrote /\ workers[2].wrote < workers[1].wrote
    /\ workers[1].stored # workers[2].stored
    /\ workers[1].stored # <<>> /\ workers[2].stored # <<>>
    /\ db[SharedName] = workers[1].stored

\* The list the scan of pass p is to store.
ToStore(p) == filterTags(Defaulted(p.pre.spec.exclusionList), p.met.listing, <<>>).tags

\* The step is a pass whose scan succeeded and has stored its list under name.
Replaces(name) ==
    /\ last' # <<>> /\ last = <<>>
    /\ ScanSucceeded(last'[1])
    /\ name = parseImageReference(last'[1].pre.spec.image).canonical
    /\ db'[name] = ToStore(last'[1])

\* C27: no step takes an entry out of the database, and an entry appears or
\* changes only in a pass whose scan of that canonical name succeeded, as a
\* whole, to the list of that scan: passes that find the object suspended or
\* under deletion, that fail or that are not due leave every entry as it was.
C27_EntryKept ==
    [][/\ DOMAIN db \subseteq DOMAIN db'
       /\ \A name \in DOMAIN db' :
             (name \notin DOMAIN db \/ db'[name] # db[name]) => Replaces(name)]_vars

\* An entry with tags has outlived the pass that took the finalizer off its
\* object, which is gone.
C27_Witness ==
    /\ last # <<>> /\ last[1].path = "finalized"
    /\ ~repo.exists
    /\ last[1].pre.status.canonicalImageName \in DOMAIN db
    /\ db[last[1].pre.status.canonicalImageName] # <<>>
    /\ db = last[1].preDb

\* The number of places of s that hold x, and of patterns that do not match tag.
Occurrences(s, x) == Cardinality({i \in 1..Len(s) : s[i] = x})
Passing(exclusionList, tag) ==
    Cardinality({i \in 1..Len(exclusionList) : ~MatchString(exclusionList[i], tag)})

\* What pattern i of the exclusion list lets pass of the listing.
PassedBy(exclusionList, listing, i) ==
    SelectSeq(listing, LAMBDA tag : ~MatchString(exclusionList[i], tag))

\* The lists let pass by the patterns from i on, one after the other.
RECURSIVE PassedFrom(_, _, _)
PassedFrom(exclusionList, listing, i) ==
    IF i > Len(exclusionList) THEN <<>>
    ELSE PassedBy(exclusionList, listing, i) \o PassedFrom(exclusionList, listing, i + 1)

\* stored is what the patterns let pass of the listing, pattern by pattern:
\* a tag that j patterns do not match is there j times.
Concatenated(exclusionList, listing, stored) ==
    /\ stored = PassedFrom(exclusionList, listing, 1)
    /\ \A tag \in Range(listing) :
          Occurrences(stored, tag) = Passing(exclusionList, tag)
    /\ \A tag \in Range(listing) :
          tag \notin Range(stored) <=>
              \A i \in 1..Len(exclusionList) : MatchString(exclusionList[i], tag)
    /\ Range(stored) \subseteq Range(listing)

\* The exclusion lists of two and of three patterns, "^z" matching no tag.
Patterns == {CosignObjectRegex, "^a", "^z"}
PatternLists == {<<x, y>> : x \in Patterns, y \in Patterns}
                  \cup {<<x, y, z>> : x \in Patterns, y \in Patterns, z \in Patterns}

\* C28, for the loop as such.
C28_Loop ==
    \A exclusionList \in PatternLists, listing \in Listings :
        LET filtered == filterTags(exclusionList, listing, <<>>)
        IN  filtered.err = NoErr /\ Concatenated(exclusionList, listing, filtered.tags)

\* C28: with an exclusion list of two or more patterns a scan stores, for
\* each pattern in turn, the tags of the whole listing the pattern does not
\* match: a tag that j of the patterns do not match is stored j times, a tag
\* is left out only if every pattern matches it, and
\* lastScanResult.tagCount is the length of the stored list.
C28_PatternsConcatenated ==
    /\ C28_Loop
    /\ (last # <<>> /\ ScanSucceeded(last[1]) /\ Len(last[1].pre.spec.exclusionList) >= 2) =>
          /\ Concatenated(last[1].pre.spec.exclusionList, last[1].met.listing,
                          Stored(last[1], db))
          /\ last[1].imageRepo.status.lastScanResult[1].tagCount = Len(Stored(last[1], db))
          /\ last[1].path = "scanned" =>
                repo.status.lastScanResult[1].tagCount = Len(Stored(last[1], db))

\* A scan with the patterns "^a" and "^.*\.sig$" of the listing a, a.sig, b:
\* b, a, b is stored and counted as three tags.
C28_Witness ==
    /\ last # <<>> /\ last[1].path = "scanned"
    /\ last[1].pre.spec.exclusionList = <<"^a", CosignObjectRegex>>
    /\ last[1].met.listing = <<TagA, TagASig, TagB>>
    /\ db[SharedName] = <<TagB, TagA, TagB>>
    /\ repo.status.lastScanResult[1].tagCount = 3

ReadyTrue(r) == Ready(r) # <<>> /\ Ready(r)[1].status = "True"

\* Status s is that of a successful scan by pass p: the canonical name is
\* the key of the stored list, the tags are counted, Ready is True.
ScannedStatus(p, s, database) ==
    /\ s.canonicalImageName = parseImageReference(p.pre.spec.image).canonical
    /\ s.canonicalImageName \in DOMAIN database
    /\ database[s.canonicalImageName] = ToStore(p)
    /\ s.lastScanResult # <<>>
    /\ s.lastScanResult[1].tagCount = Len(database[s.canonicalImageName])

\* C29: after a pass whose scan succeeds the database holds under the
\* canonical name of the image the filtered list and nothing of an earlier
\* list; in memory status.canonicalImageName is that name, lastScanResult
\* counts the stored tags at the time the scan ended, not before the start
\* of the pass, and Ready is True; when the status patch succeeds the same
\* is in the API server, the time to the second, and Reconcile returns
\* RequeueAfter = spec.interval without Requeue and without error.
C29_SuccessfulScan ==
    (last # <<>> /\ ScanSucceeded(last[1])) =>
        /\ ScannedStatus(last[1], last[1].imageRepo.status, db)
        /\ last[1].imageRepo.status.lastScanResult[1].scanTime = last[1].now + last[1].met.elapsed
        /\ last[1].imageRepo.status.lastScanResult[1].scanTime = clock
        /\ ReadyTrue(last[1].imageRepo)
        /\ last[1].path \in {"scanned", "scanPatchErr"}
        /\ last[1].path = "scanned" =>
              /\ ScannedStatus(last[1], repo.status, db)
              /\ repo.status.lastScanResult[1].scanTime = (clock \div Second) * Second
              /\ ReadyTrue(repo)
              /\ last[1].result = Result(FALSE, last[1].pre.spec.interval, NoErr)

\* A scan that took time and has replaced a list of two tags by the empty
\* list, on an object scanned before.
C29_Witness ==
    /\ last # <<>> /\ last[1].path = "scanned"
    /\ Scanned(last[1].pre)
    /\ Len(StoredTags(last[1].pre, last[1].preDb)) = 2
    /\ StoredTags(repo, db) = <<>>
    /\ last[1].met.elapsed > 0
    /\ repo.status.lastScanResult[1].scanTime > last[1].pre.status.lastScanResult[1].scanTime
    /\ repo.status.lastScanResult[1].tagCount = 0

\* Pass p reconciles an object scanned before, with no request of the user
\* outstanding and a non-empty list of tags read from the database.
Settled(p) ==
    /\ Asked(p) /\ p.sched.err = NoErr
    /\ Scanned(p.pre) /\ ~Unhandled(p.pre)
    /\ StoredTags(Asking(p), p.preDb) # <<>>

\* The time from the recorded scan time to the start of pass p.
SinceScan(p) == p.now - p.pre.status.lastScanResult[1].scanTime

\* C30: while the list of stored tags is non-empty and the image and the
\* reconcile request annotation stay as they are, a pass scans only when
\* more than interval - 1s has passed since the recorded scan time; every
\* pass earlier than that, however many there are, returns RequeueAfter =
\* the time left of the interval without error, calls neither the API
\* server nor the registry, and leaves the database and the recorded scan
\* as they were.
C30_NoEarlyScan ==
    (last # <<>> /\ Settled(last[1])) =>
        /\ ScanAttempted(last[1]) =>
              SinceScan(last[1]) > last[1].pre.spec.interval - Second
        /\ SinceScan(last[1]) <= last[1].pre.spec.interval - Second =>
              /\ last[1].path = "notDue"
              /\ last[1].result = Result(FALSE, Remaining(last[1].pre, last[1].now), NoErr)
              /\ last[1].result.RequeueAfter >= Second
              /\ last[1].calls = <<>>
              /\ db = last[1].preDb
              /\ repo = last[1].pre

\* A pass at the very second of the recorded scan, on an object whose
\* request of the user was handled by that scan: the whole interval is left.
C30_Witness ==
    /\ last # <<>> /\ Settled(last[1])
    /\ last[1].pre.annotations.ok
    /\ SinceScan(last[1]) = 0
    /\ last[1].path = "notDue"
    /\ last[1].result.RequeueAfter = 2 * Second
    /\ last[1].calls = <<>>

\* The next scan of a settled object, begun when exactly one second less a
\* tick of the interval was left.
C30_NextScan ==
    /\ last # <<>> /\ Settled(last[1])
    /\ last[1].path = "scanned"
    /\ Remaining(last[1].pre, last[1].now) = Second - 1

\* The result of the pass that has returned asks for another delivery: it
\* carries an error or Requeue, or a RequeueAfter of a second or more.
AsksAgain ==
    (last # <<>> /\ ~Retried(last[1])) => last[1].result.RequeueAfter >= Second

\* C31: when the work queue delivers the request again after every
\* RequeueAfter and every error, time passes, and the API server, the
\* database and the registry answer again and again, an object that stays
\* active with a valid image and an interval of a second or more is scanned
\* successfully infinitely often, and no pass that returns without error
\* returns RequeueAfter = 0, which would leave the work queue nothing to
\* deliver.
C31_ScannedForever ==
    /\ []AsksAgain
    /\ []<>(last # <<>> /\ last[1].path = "scanned")

\* A successful scan of an object scanned before, delivered by the timer of
\* the pass before it, which had found the scan not due.
C31_Witness ==
    /\ last # <<>> /\ last[1].path = "scanned"
    /\ Scanned(last[1].pre) /\ ~Unhandled(last[1].pre)
    /\ StoredTags(last[1].pre, last[1].preDb) # <<>>
    /\ edits > 0
    /\ last[1].now - Recorded(last[1].pre) = last[1].pre.spec.interval

\* Pass p found the image of an object scanned before changed to one with
\* another canonical name, and called shouldScan.
Renamed(p) ==
    /\ Asked(p) /\ Scanned(p.pre)
    /\ p.pre.status.canonicalImageName # Asking(p).status.canonicalImageName

\* C32: shouldScan always decides by the canonical name of the image the
\* object has now.  When the image of a scanned object has been changed to
\* one whose canonical name has no tags in the database, the pass that
\* reads the database scans at that very call, however recent the last
\* scan and with no request of the user, and the API server holds the new
\* canonical name whatever becomes of the scan and of the status patch
\* after it.
C32_NewNameDecides ==
    last # <<>> =>
        /\ Asked(last[1]) =>
              last[1].sched = shouldScan(Asking(last[1]), last[1].now, last[1].preDb,
                                         last[1].met.fault = "tags")
        /\ (Renamed(last[1]) /\ ~Unhandled(last[1].pre) /\ last[1].sched.err = NoErr
              /\ StoredTags(Asking(last[1]), last[1].preDb) = <<>>) =>
              /\ last[1].sched = Decision(TRUE, last[1].pre.spec.interval, NoErr, 1)
              /\ ScanAttempted(last[1])
              /\ repo.status.canonicalImageName = Asking(last[1]).status.canonicalImageName

\* A scan at the instant of the last scan, of an object whose image was
\* changed: by the old canonical name, which has tags, no scan was due; the
\* status patch after the scan failed and the new name is in the API server.
C32_Witness ==
    /\ last # <<>> /\ Renamed(last[1]) /\ ~Unhandled(last[1].pre)
    /\ StoredTags(last[1].pre, last[1].preDb) # <<>>
    /\ StoredTags(Asking(last[1]), last[1].preDb) = <<>>
    /\ ~shouldScan(last[1].pre, last[1].now, last[1].preDb, FALSE).ok
    /\ last[1].path = "scanPatchErr" /\ last[1].scanErr = NoErr
    /\ last[1].pre.status.lastScanResult[1].scanTime = last[1].now
    /\ repo.status.canonicalImageName = Asking(last[1]).status.canonicalImageName
    /\ repo.status.lastScanResult = last[1].pre.status.lastScanResult

\* A renamed object whose new canonical name has tags from an earlier scan:
\* no scan is due.
C32_KnownName ==
    /\ last # <<>> /\ Renamed(last[1]) /\ last[1].path = "notDue"

ReadyReason(r) == IF Ready(r) = <<>> THEN "" ELSE Ready(r)[1].reason

\* Pass p has returned without error from an object that is not suspended,
\* not under deletion and has a valid image.
Cleared(p) ==
    /\ p.result.err = NoErr
    /\ p.pre.exists /\ ~p.pre.deletionTimestamp
    /\ ~p.pre.spec.suspend
    /\ parseImageReference(p.pre.spec.image).err = NoErr

\* C33: after a pass that returns without error from an object that is not
\* suspended and has a valid image, the Ready condition in the API server
\* has neither the reason Suspended nor the reason ImageURLInvalid, whether
\* the pass has scanned or has found the scan not due.
C33_NoStaleReason ==
    (last # <<>> /\ Cleared(last[1])) =>
        ReadyReason(repo) \notin {SuspendedReason, ImageURLInvalidReason}

\* What holds: a pass that scans and patches the status leaves neither reason.
C33_ScanClearsReason ==
    (last # <<>> /\ Cleared(last[1]) /\ last[1].path = "scanned") =>
        ReadyReason(repo) = ReconciliationSucceededReason

\* A resumed object keeps the reason Suspended through a pass that finds
\* the scan not due.
C33_StaleSuspended ==
    /\ last # <<>> /\ Cleared(last[1]) /\ last[1].path = "notDue"
    /\ ReadyReason(repo) = SuspendedReason

\* An object whose image was corrected keeps the reason ImageURLInvalid
\* through a pass that finds the scan not due.
C33_StaleInvalid ==
    /\ last # <<>> /\ Cleared(last[1]) /\ last[1].path = "notDue"
    /\ ReadyReason(repo) = ImageURLInvalidReason

\* The tag count in the status of r is the number of tags the database
\* holds under the canonical name in that status.
Agrees(r, database) ==
    Scanned(r) => r.status.lastScanResult[1].tagCount = Len(StoredTags(r, database))

\* C34: between the passes of the one object that writes its canonical
\* name, a lastScanResult in the API server counts the tags the database
\* holds under the canonical name in the API server, also after a pass
\* whose status patch failed after the write of the database and after a
\* pass that followed a change of spec.image.
C34_StoreStatusAgree == repo.exists => Agrees(repo, db)

\* What holds: the count and the database agree after every pass that has
\* scanned and patched the status.
C34_AgreeAfterScan ==
    (last # <<>> /\ last[1].path = "scanned") => Agrees(repo, db)

\* The database was written and the status patch after it failed: the
\* status counts the list of the scan before.
C34_PatchFailed ==
    /\ last # <<>> /\ last[1].path = "scanPatchErr" /\ last[1].scanErr = NoErr
    /\ Scanned(repo) /\ ~Agrees(repo, db)
    /\ repo.status.canonicalImageName = last[1].pre.status.canonicalImageName

\* The image was changed and the scan of the new repository failed: the
\* status names the new repository and counts the tags of the old one.
C34_Renamed ==
    /\ last # <<>> /\ Renamed(last[1]) /\ last[1].scanErr # NoErr
    /\ ~Agrees(repo, db)
    /\ StoredTags(repo, db) = <<>>

\* Pass p has fetched the secret of spec.secretRef.
ReadSecret(p) ==
    ScanAttempted(p) /\ p.pre.spec.secretRef # <<>> /\ p.met.scanFail # "secretGet"

\* What authFromSecret returns to pass p when the range over the auths of
\* its secret takes the order o.
FromSecret(p, o) ==
    authFromSecret(Ranged(Fetched(p.pre.spec.secretRef[1], p.met.secret), o),
                   parseImageReference(p.pre.spec.image))

\* The hosts of the keys of the auths, with repeats.
Hosts(auths) == [i \in 1..Len(auths) |-> getURLHost(auths[i].url).host]

\* C35: what authFromSecret returns to a scan depends on the content of the
\* secret and on the reference alone: every order of the range over the
\* auths yields what the order taken has yielded, also for a secret with
\* two keys of one host and different credentials.
C35_OrderIndifferent ==
    (last # <<>> /\ ReadSecret(last[1])) =>
        \A o \in Orders(Len(last[1].met.secret.auths)) :
            FromSecret(last[1], o) = FromSecret(last[1], last[1].met.order)

\* What holds: the order makes no difference to a secret whose keys have
\* hosts that differ from one another.
C35_DistinctHosts ==
    (last # <<>> /\ ReadSecret(last[1])
       /\ \A i, j \in 1..Len(last[1].met.secret.auths) :
             Hosts(last[1].met.secret.auths)[i] = Hosts(last[1].met.secret.auths)[j] => i = j) =>
        \A o \in Orders(Len(last[1].met.secret.auths)) :
            FromSecret(last[1], o) = FromSecret(last[1], last[1].met.order)

\* A scan with the secret of the keys "index.docker.io" and
\* "https://index.docker.io/v2/" whose range has taken the credentials of
\* the first key: the other order yields those of the second.
C35_EitherKey ==
    /\ last # <<>> /\ ReadSecret(last[1])
    /\ last[1].met.secret = SecretTwoKeys
    /\ last[1].met.order = <<2, 1>>
    /\ FromSecret(last[1], <<2, 1>>).auth = <<"plain">>
    /\ FromSecret(last[1], <<1, 2>>).auth = <<"v2">>
    /\ Called(last[1], "WithAuth") /\ Called(last[1], "List")

====
